---- MODULE Spec2Model ----
(***************************************************************************)
(* Model of the loopback mixer core: the SPSC ring buffer of ring.rs       *)
(* (push / pop / discard / available_read, each atomic load, copy and      *)
(* store a separate step) and the node-source adapter push_node_frames of  *)
(* lib.rs that layers a drop-oldest policy on top of it.                   *)
(*                                                                         *)
(* Samples are labelled with their position in the producer's stream       *)
(* (1, 2, 3, ...); 0 is the 0.0 the data region is created with and -1 an  *)
(* output slot the ring has not written.                                   *)
(***************************************************************************)
EXTENDS Integers, Sequences, FiniteSets, TLC

\* ---------------------------------------------------------------- bounds
Channels == 2
RingCapacity == 3
MaxSamples == 10
MaxSamplesSeq == 14
MaxPushLen == 4
MaxOutLen == 4
MaxDiscard == 2
MaxTs == 1
MaxSourceIndex == 2
MaxBlockFrames == 1
MaxFrames == 3
MaxSources == 2
MaxBlocks == 2
MaxControl == 2
MaxMixFrames == 4
MaxMixPush == 2
MaxLatency == 2
MaxBoxes == 3
MaxCreated == 4
MaxPairs == 260
MaxDelayCalls == 36
MaxResamplePairs == 12

\* push_node_frames blocks: long enough to overrun a full ring by more than
\* its capacity.
MaxNodeLen == Channels * (RingCapacity + 1)

Threads == {"producer", "consumer"}
NoTs == 0 - 1
TsInputs == {NoTs} \cup (1..MaxTs)
SourceIndices == 1..MaxSourceIndex
Stale == 0 - 1

\* ptr::null_mut()
Null == 0

\* Heap addresses a Box<LoopbackMixerFfi> may be given.
Addresses == 1..MaxBoxes

\* boxes[a] for an address that holds no live box; a live box is marked with
\* the number of the create call that made it.
Freed == 0

NoDestroy == [pc |-> "idle", handle |-> Null, stored |-> Null]
NoStatusCall ==
    [pc |-> "idle", handle |-> Null, born |-> Freed, ret |-> "none",
     dereferenced |-> Freed, was_live |-> TRUE]

VARIABLES
    write_index,        \* RingBufferHeader.write_index
    read_index,         \* RingBufferHeader.read_index
    last_timestamp_ns,  \* RingBufferHeader.last_timestamp_ns
    data,               \* the sample region, indexed 0 .. capacity*channels-1
    node_sources,       \* LoopbackMixerFfi.node_sources: source index -> handle
    th,                 \* per thread: position in the call and its locals
    sequential,         \* TRUE: calls are made one at a time and logged
    call,               \* sequential runs: the ring call last begun
    ncall,              \* sequential runs: the push_node_frames call last begun
    next_sample,        \* next label of the producer's stream
    accepted,           \* samples published by push so far, in order
    consumed,           \* samples taken out by pop or skipped by discard
    accepted_frames,    \* sum of the values push returned
    consumed_frames,    \* sum of the values pop and discard returned
    avail,              \* an observer's available_read() call in flight
    sources,            \* Mixer.sources, in registration order
    next_source_id,     \* Mixer.next_source_id
    render,             \* the Mixer.process call in flight or last returned
    ctl,                \* the control call last returned
    fed,                \* per source: frames its ring accepted so far
    blocks,             \* process calls begun so far
    ncontrol,           \* control calls made so far
    loopback_global,    \* LOOPBACK_GLOBAL
    boxes,              \* heap: per address, the LoopbackMixerFfi boxed there
    created,            \* loopback_mixer_create calls so far
    destroying,         \* the loopback_mixer_destroy call in flight
    status_call,        \* the get_mixer_status call in flight or last returned
    mic_handle,         \* LoopbackMixerFfi.mic_handle
    delay_line,         \* a DelayLine driven call by call
    delay_log           \* the DelayLine calls made so far and the last result

ringVars == <<write_index, read_index, last_timestamp_ns, data>>
ghostVars == <<next_sample, accepted, consumed, accepted_frames,
               consumed_frames>>
mixVars == <<sources, next_source_id, render, ctl, fed, blocks, ncontrol>>
globalVars == <<loopback_global, boxes, created, destroying, status_call>>
delayVars == <<delay_line, delay_log>>
extVars == <<avail, mixVars, globalVars, mic_handle, delayVars>>
coreVars == <<ringVars, node_sources, th, sequential, call, ncall, ghostVars,
              avail, globalVars, mic_handle, delayVars>>
vars == <<write_index, read_index, last_timestamp_ns, data, node_sources, th,
          sequential, call, ncall, next_sample, accepted, consumed,
          accepted_frames, consumed_frames, avail, sources, next_source_id,
          render, ctl, fed, blocks, ncontrol, loopback_global, boxes, created,
          destroying, status_call, mic_handle, delay_line, delay_log>>

\* ------------------------------------------------------- pure arithmetic
Min(a, b) == IF a <= b THEN a ELSE b

\* u64::saturating_sub
SatSub(a, b) == IF a >= b THEN a - b ELSE 0

\* frames.len() / self.channels
FramesCount(len) == len \div Channels

RingUsed_Wrapped(w, r) == SatSub(w, r) % RingCapacity

\* write_index.saturating_sub(read_index).min(capacity)
RingUsed(w, r) == Min(SatSub(w, r), RingCapacity)

PushFree_OffByOne(w, r) == SatSub(RingCapacity, RingUsed(w, r)) + 1

PushFree_OneSlotEmpty(w, r) == SatSub(RingCapacity, RingUsed(w, r) + 1)

\* capacity.saturating_sub(used)
PushFree(w, r) == SatSub(RingCapacity, RingUsed(w, r))

PushFramesToWrite_Requested(len, w, r) == FramesCount(len)

\* frames_count.min(free)
PushFramesToWrite(len, w, r) == Min(FramesCount(len), PushFree(w, r))

PopFramesToRead_Capacity(len, w, r) ==
    Min(FramesCount(len), IF RingUsed(w, r) = 0 THEN 0 ELSE RingCapacity)

\* requested_frames.min(available)
PopFramesToRead(len, w, r) == Min(FramesCount(len), RingUsed(w, r))

DiscardFrames_Unclamped(n, w, r) == IF RingUsed(w, r) = 0 THEN 0 ELSE n

\* frames.min(available)
DiscardFrames(n, w, r) == Min(n, RingUsed(w, r))

\* available_read(), both loads taken from one state
AvailableRead == RingUsed(write_index, read_index)

\* (index % capacity)
StartFrame(idx) == idx % RingCapacity

\* (capacity_frames - start_frame).min(frames)
FirstChunkFrames(idx, n) == Min(RingCapacity - StartFrame(idx), n)

\* timestamp_ns.unwrap_or_else(monotonic_timestamp_ns): the clock reads a
\* value no caller passes explicitly.
MonotonicTimestampNs == MaxTs + 1
PushTimestamp(ts) == IF ts = NoTs THEN MonotonicTimestampNs ELSE ts

\* ------------------------------------------------------------ the copies
\* data[first_dest .. first_dest + first_samples] <- frames[.. first_samples]
CopyInFirst(d, frames, w, n) ==
    LET fs == FirstChunkFrames(w, n) * Channels
        fd == StartFrame(w) * Channels
    IN  [i \in DOMAIN d |->
            IF i >= fd /\ i < fd + fs THEN frames[i - fd + 1] ELSE d[i]]

\* data[0 .. remaining_samples] <- frames[src_offset .. src_offset + remaining]
CopyInSecond(d, frames, w, n) ==
    LET fs == FirstChunkFrames(w, n) * Channels
        rs == (n - FirstChunkFrames(w, n)) * Channels
    IN  [i \in DOMAIN d |-> IF i < rs THEN frames[fs + i + 1] ELSE d[i]]

\* out[.. first_samples] <- data[first_src .. first_src + first_samples]
CopyOutFirst(out, d, r, n) ==
    LET fs == FirstChunkFrames(r, n) * Channels
        src == StartFrame(r) * Channels
    IN  [j \in 1..Len(out) |-> IF j <= fs THEN d[src + j - 1] ELSE out[j]]

CopyOutSecond_NotRebased(out, d, r, n) ==
    LET fs == FirstChunkFrames(r, n) * Channels
        rs == (n - FirstChunkFrames(r, n)) * Channels
    IN  [j \in 1..Len(out) |->
            IF j > fs /\ j <= fs + rs THEN d[j - 1] ELSE out[j]]

\* out[copied .. copied + remaining_samples] <- data[0 .. remaining_samples]
CopyOutSecond(out, d, r, n) ==
    LET fs == FirstChunkFrames(r, n) * Channels
        rs == (n - FirstChunkFrames(r, n)) * Channels
    IN  [j \in 1..Len(out) |->
            IF j > fs /\ j <= fs + rs THEN d[j - fs - 1] ELSE out[j]]

PushNextPc_PublishFirst(pc, free, wraps) ==
    CASE pc = "push_load_w" -> "push_load_r"
      [] pc = "push_load_r" -> IF free = 0 THEN "return" ELSE "push_store_w"
      [] pc = "push_store_w" -> "push_copy1"
      [] pc = "push_copy1" -> IF wraps THEN "push_copy2" ELSE "push_store_ts"
      [] pc = "push_copy2" -> "push_store_ts"
      [] pc = "push_store_ts" -> "return"

PushNextPc_StampFirst(pc, free, wraps) ==
    CASE pc = "push_load_w" -> "push_load_r"
      [] pc = "push_load_r" -> IF free = 0 THEN "return" ELSE "push_copy1"
      [] pc = "push_copy1" -> IF wraps THEN "push_copy2" ELSE "push_store_ts"
      [] pc = "push_copy2" -> "push_store_ts"
      [] pc = "push_store_ts" -> "return"
      [] pc = "push_store_w" -> "push_store_ts"

PushNextPc_StampWhenFull(pc, free, wraps) ==
    CASE pc = "push_load_w" -> "push_load_r"
      [] pc = "push_load_r" -> IF free = 0 THEN "push_store_ts" ELSE "push_copy1"
      [] pc = "push_copy1" -> IF wraps THEN "push_copy2" ELSE "push_store_w"
      [] pc = "push_copy2" -> "push_store_w"
      [] pc = "push_store_w" -> "push_store_ts"
      [] pc = "push_store_ts" -> "return"

\* The order of push's statements: both loads, the return when full, the
\* first and (when the block wraps) second copy, the release store of
\* write_index, then the timestamp store.
PushNextPc(pc, free, wraps) ==
    CASE pc = "push_load_w" -> "push_load_r"
      [] pc = "push_load_r" -> IF free = 0 THEN "return" ELSE "push_copy1"
      [] pc = "push_copy1" -> IF wraps THEN "push_copy2" ELSE "push_store_w"
      [] pc = "push_copy2" -> "push_store_w"
      [] pc = "push_store_w" -> "push_store_ts"
      [] pc = "push_store_ts" -> "return"

\* The block the producer offers next: len fresh labels.
Block(len) == [i \in 1..len |-> next_sample + i - 1]

\* An output buffer of len samples none of which the ring has written yet.
FreshOut(len) == [i \in 1..len |-> Stale]

\* &data[start..]
SliceFrom(s, start) == [i \in 1..(Len(s) - start) |-> s[start + i]]

\* The samples of the count frames from logical frame index `from` on, as
\* push published them.
LogicalFrames(a, from, count) ==
    [i \in 1..(count * Channels) |->
        IF from * Channels + i <= Len(a) THEN a[from * Channels + i] ELSE Stale]

\* What a pop(out) with len(out) = len run from the current state, with no
\* other call in between, copies out: (frames read, out).
PopNow(len) ==
    LET n == IF FramesCount(len) = 0 THEN 0
             ELSE PopFramesToRead(len, write_index, read_index)
        first == IF n = 0 THEN FreshOut(len)
                 ELSE CopyOutFirst(FreshOut(len), data, read_index, n)
        out == IF n > FirstChunkFrames(read_index, n)
               THEN CopyOutSecond(first, data, read_index, n) ELSE first
    IN  [ret |-> n, out |-> out]

\* --------------------------------------------------------- thread state
ZeroData == [i \in 0..(RingCapacity * Channels - 1) |-> 0]

IdleThread ==
    [pc |-> "idle", cont |-> "idle", buf |-> <<>>, ts |-> NoTs,
     w |-> 0, r |-> 0, n |-> 0, ret |-> 0,
     nd |-> <<>>, nd_ts |-> 0, nd_written |-> 0]

NoCall ==
    [op |-> "none", arg |-> 0, ts |-> NoTs, block |-> <<>>,
     pre_w |-> 0, pre_r |-> 0, pre_ts |-> 0, pre_data |-> ZeroData,
     done |-> TRUE, ret |-> 0, out |-> <<>>]

NoNodeCall ==
    [active |-> FALSE, done |-> FALSE, ret |-> FALSE, index |-> 0,
     block |-> <<>>, pre_w |-> 0, pre_r |-> 0]

\* The log entry of a ring call that begins in the current state.
CallStart(op, arg, ts, block) ==
    IF sequential
    THEN [op |-> op, arg |-> arg, ts |-> ts, block |-> block,
          pre_w |-> write_index, pre_r |-> read_index,
          pre_ts |-> last_timestamp_ns, pre_data |-> data,
          done |-> FALSE, ret |-> 0, out |-> <<>>]
    ELSE call

CallDone(c, v, out) ==
    IF sequential THEN [c EXCEPT !.done = TRUE, !.ret = v, !.out = out] ELSE c

NodeCallStart(idx, block) ==
    IF sequential
    THEN [active |-> TRUE, done |-> FALSE, ret |-> FALSE, index |-> idx,
          block |-> block, pre_w |-> write_index, pre_r |-> read_index]
    ELSE ncall

NodeCallDone(c, v) ==
    IF sequential THEN [c EXCEPT !.done = TRUE, !.ret = v] ELSE c

\* The thread after its ring call returned v: back to the caller, which
\* keeps the value only when it is push_node_frames.
Returned(rec, v) ==
    [rec EXCEPT !.pc = rec.cont, !.cont = "idle", !.buf = <<>>, !.ts = NoTs,
                !.w = 0, !.r = 0, !.n = 0,
                !.ret = IF rec.cont = "idle" THEN 0 ELSE v]

\* ring.rs push, lines 202-206: a slice shorter than one frame returns 0.
PushEntry(rec, frames, ts, cont) ==
    IF FramesCount(Len(frames)) = 0
    THEN Returned([rec EXCEPT !.cont = cont], 0)
    ELSE [rec EXCEPT !.pc = "push_load_w", !.cont = cont,
                     !.buf = frames, !.ts = ts]

PushEntryCall(frames, ts) ==
    IF FramesCount(Len(frames)) = 0
    THEN CallDone(CallStart("push", Len(frames), ts, frames), 0, <<>>)
    ELSE CallStart("push", Len(frames), ts, frames)

\* ring.rs discard, lines 280-282.
DiscardEntry(rec, n, cont) ==
    [rec EXCEPT !.pc = "disc_load_w", !.cont = cont, !.n = n]

\* No available_read() call in flight and none returned yet.
NoAvail == [pc |-> "idle", w |-> 0, r |-> 0, ret |-> 0, readable |-> 0]

\* The caller's buffer memory before process writes to it.
GivenBuffer == [i \in 1..(MaxFrames * Channels) |-> Stale]

\* No process call made yet / no control call made yet.
NoRender ==
    [pc |-> "idle", idx |-> 0, frames |-> 0, channels |-> 0,
     output |-> GivenBuffer, ret |-> <<"None", 0>>, mixed |-> <<>>]

NoControl ==
    [op |-> "none", handle |-> 0, args |-> <<>>, ret |-> <<"None", 0>>]

\* Calls are made one at a time in a sequential run.
MayBegin(t) ==
    /\ th[t].pc = "idle"
    /\ sequential => \A u \in Threads : th[u].pc = "idle"

StreamBound == IF sequential THEN MaxSamplesSeq ELSE MaxSamples

\* No source: the handles add_source returns start at 1.
NoHandle == 0

\* ================================================================ mixer
\* Sample values of the mix path are kept in units of 1/RatioOne, the unit
\* of the resampler's ratio and phase, so that the linear interpolation is
\* exact. A frame is a pair <<left, right>>.
RatioOne == 1000
RatioMin == 950
RatioMax == 1050
FeedbackMin == 980
FeedbackMax == 1020
AlphaInverse == 20

\* smoothed_ratio is kept in units of 1/ClockOne (a tenth of a ppm, about
\* one f32 step near 1.0).
ClockOne == 10000000
ClockPerRatio == ClockOne \div RatioOne

\* a / b rounded to the nearest integer
RoundDiv(a, b) == (2 * a + b) \div (2 * b)
DelayMinCapacity == 32
DelayBlocks == 8
ScratchHeadroom == 4

\* Stereo::EQUILIBRIUM
Silence == <<0, 0>>

Max(a, b) == IF a >= b THEN a ELSE b

\* f32::clamp
Clamp(x, lo, hi) == IF x < lo THEN lo ELSE IF x > hi THEN hi ELSE x

\* ((frames as f32) * ratio).ceil() as usize + 2
ExpectedInput(frames, ratio) ==
    (frames * ratio + RatioOne - 1) \div RatioOne + 2

\* vec![0.0; max_block_frames * MIX_CHANNELS * 4]
ScratchLen(max_block_frames) == max_block_frames * Channels * ScratchHeadroom

\* self.scratch.len() of the sources of this mixer
ScratchSamples == ScratchLen(MaxBlockFrames)

ScratchTooSmall_Never(expected_input) == FALSE

\* scratch_needed > self.scratch.len()
ScratchTooSmall(expected_input) == expected_input * Channels > ScratchSamples

\* DelayLine::new(max_block_frames * 8): capacity.max(32)
DelayCapacity == Max(MaxBlockFrames * DelayBlocks, DelayMinCapacity)

\* ------------------------------------------- a source's ring, whole calls
NewRing ==
    [write_index |-> 0, read_index |-> 0, last_timestamp_ns |-> 0,
     data |-> ZeroData]

\* SharedRingBuffer::push as one step: (ring, frames written).
RingPush(rg, frames, ts) ==
    LET n == IF FramesCount(Len(frames)) = 0 THEN 0
             ELSE PushFramesToWrite(Len(frames), rg.write_index, rg.read_index)
        d1 == CopyInFirst(rg.data, frames, rg.write_index, n)
        d2 == IF n > FirstChunkFrames(rg.write_index, n)
              THEN CopyInSecond(d1, frames, rg.write_index, n) ELSE d1
    IN  IF n = 0 THEN [ring |-> rg, ret |-> 0]
        ELSE [ring |-> [rg EXCEPT !.data = d2,
                                  !.write_index = rg.write_index + n,
                                  !.last_timestamp_ns = PushTimestamp(ts)],
              ret |-> n]

\* SharedRingBuffer::pop into a slice of len samples as one step.
RingPop(rg, len) ==
    LET n == IF FramesCount(len) = 0 THEN 0
             ELSE PopFramesToRead(len, rg.write_index, rg.read_index)
        first == IF n = 0 THEN FreshOut(len)
                 ELSE CopyOutFirst(FreshOut(len), rg.data, rg.read_index, n)
        out == IF n > FirstChunkFrames(rg.read_index, n)
               THEN CopyOutSecond(first, rg.data, rg.read_index, n) ELSE first
    IN  [ring |-> [rg EXCEPT !.read_index = rg.read_index + n],
         ret |-> n, out |-> out]

\* SharedRingBuffer::discard as one step.
RingDiscard(rg, frames) ==
    LET n == DiscardFrames(frames, rg.write_index, rg.read_index)
    IN  [ring |-> [rg EXCEPT !.read_index = rg.read_index + n], ret |-> n]

RingAvailable(rg) == RingUsed(rg.write_index, rg.read_index)

\* ---------------------------------------------------------- DelayLine
NewDelayLine ==
    [buffer |-> [i \in 0..(DelayCapacity - 1) |-> Silence],
     capacity |-> DelayCapacity, read_idx |-> 0, write_idx |-> 0,
     len |-> 0, target_delay |-> 0]

SetTarget_ClampedToCapacity(dl, frames) ==
    [dl EXCEPT !.target_delay = Min(frames, dl.capacity)]

SetTarget_Unclamped(dl, frames) == [dl EXCEPT !.target_delay = frames]

\* set_target: frames.min(self.capacity.saturating_sub(1))
SetTarget(dl, frames) ==
    [dl EXCEPT !.target_delay = Min(frames, SatSub(dl.capacity, 1))]

\* pop_internal: (delay line, Some?, frame)
PopInternal(dl) ==
    IF dl.len = 0 THEN [dl |-> dl, some |-> FALSE, frame |-> Silence]
    ELSE [dl |-> [dl EXCEPT !.read_idx = (dl.read_idx + 1) % dl.capacity,
                            !.len = dl.len - 1],
          some |-> TRUE, frame |-> dl.buffer[dl.read_idx]]

RECURSIVE PopTimes(_, _)
PopTimes(dl, k) == IF k = 0 THEN dl ELSE PopTimes(PopInternal(dl).dl, k - 1)

\* drop_frames: (delay line, frames dropped)
DropFrames(dl, frames) ==
    [dl |-> PopTimes(dl, Min(frames, dl.len)), ret |-> Min(frames, dl.len)]

\* process_frame: (delay line, frame returned)
ProcessFrame(dl, frame) ==
    LET w == [dl EXCEPT !.buffer[dl.write_idx] = frame,
                        !.write_idx = (dl.write_idx + 1) % dl.capacity]
        g == IF w.len < w.capacity
             THEN [w EXCEPT !.len = w.len + 1]
             ELSE [w EXCEPT !.read_idx = (w.read_idx + 1) % w.capacity]
    IN  IF g.len > g.target_delay
        THEN [dl |-> PopInternal(g).dl, frame |-> PopInternal(g).frame]
        ELSE [dl |-> g, frame |-> Silence]

\* ------------------------------------------------------------- Source
NewClock == [last_device_ts |-> NoTs, last_source_ts |-> NoTs,
             smoothed_ratio |-> ClockOne]

NewSource(id) ==
    [handle |-> id, ring |-> NewRing, gain |-> 1, mute |-> FALSE,
     latency_frames |-> 0, current_latency_setting |-> 0,
     advance_deficit |-> 0, delay_line |-> NewDelayLine,
     resampler |-> [ratio |-> RatioOne, phase |-> 0],
     clock |-> NewClock, prev_frame |-> Silence]

UpdateLatencyState_KeepsDeficit(s) ==
    LET desired == s.latency_frames
    IN  IF desired = s.current_latency_setting THEN s
        ELSE IF desired >= 0
        THEN [s EXCEPT !.delay_line = SetTarget(s.delay_line, desired),
                       !.current_latency_setting = desired]
        ELSE LET deficit == 0 - desired
                 dropped == DropFrames(SetTarget(s.delay_line, 0), deficit)
             IN  [s EXCEPT !.delay_line = dropped.dl,
                           !.advance_deficit = SatSub(deficit, dropped.ret),
                           !.current_latency_setting = desired]

UpdateLatencyState_FullDeficit(s) ==
    LET desired == s.latency_frames
    IN  IF desired = s.current_latency_setting THEN s
        ELSE IF desired >= 0
        THEN [s EXCEPT !.delay_line = SetTarget(s.delay_line, desired),
                       !.advance_deficit = 0,
                       !.current_latency_setting = desired]
        ELSE [s EXCEPT !.delay_line =
                           DropFrames(SetTarget(s.delay_line, 0),
                                      0 - desired).dl,
                       !.advance_deficit = 0 - desired,
                       !.current_latency_setting = desired]

\* update_latency_state
UpdateLatencyState(s) ==
    LET desired == s.latency_frames
    IN  IF desired = s.current_latency_setting THEN s
        ELSE IF desired >= 0
        THEN [s EXCEPT !.delay_line = SetTarget(s.delay_line, desired),
                       !.advance_deficit = 0,
                       !.current_latency_setting = desired]
        ELSE LET deficit == 0 - desired
                 dropped == DropFrames(SetTarget(s.delay_line, 0), deficit)
             IN  [s EXCEPT !.delay_line = dropped.dl,
                           !.advance_deficit = SatSub(deficit, dropped.ret),
                           !.current_latency_setting = desired]

ClampFeedback_None(raw_ratio) == raw_ratio

\* raw_ratio.clamp(0.98, 1.02)
ClampFeedback(raw_ratio) ==
    Clamp(raw_ratio, FeedbackMin * ClockPerRatio, FeedbackMax * ClockPerRatio)

\* self.smoothed_ratio + ALPHA * (clamped - self.smoothed_ratio)
Smooth(smoothed_ratio, clamped) ==
    smoothed_ratio + RoundDiv(clamped - smoothed_ratio, AlphaInverse)

\* ClockState::drift_ppm: (self.smoothed_ratio - 1.0) * 1_000_000.0
PpmOne == 1000000
DriftPpm(c) == RoundDiv(c.smoothed_ratio - ClockOne, ClockOne \div PpmOne)

SubmitFeedback_DeviceOnly(c, device_ts, source_ts) ==
    LET stamped == [c EXCEPT !.last_device_ts = device_ts,
                             !.last_source_ts = source_ts]
    IN  IF /\ c.last_device_ts # NoTs
           /\ c.last_source_ts # NoTs
           /\ device_ts > c.last_device_ts
        THEN LET raw == RoundDiv((source_ts - c.last_source_ts) * ClockOne,
                                 device_ts - c.last_device_ts)
                 smoothed == Smooth(c.smoothed_ratio, ClampFeedback(raw))
             IN  [clock |-> [stamped EXCEPT !.smoothed_ratio = smoothed],
                  some |-> TRUE, ratio |-> smoothed]
        ELSE [clock |-> stamped, some |-> FALSE, ratio |-> 0]

SubmitFeedback_StampsAccepted(c, device_ts, source_ts) ==
    LET stamped == [c EXCEPT !.last_device_ts = device_ts,
                             !.last_source_ts = source_ts]
    IN  IF /\ c.last_device_ts # NoTs
           /\ c.last_source_ts # NoTs
           /\ device_ts > c.last_device_ts
           /\ source_ts > c.last_source_ts
        THEN LET raw == RoundDiv((source_ts - c.last_source_ts) * ClockOne,
                                 device_ts - c.last_device_ts)
                 smoothed == Smooth(c.smoothed_ratio, ClampFeedback(raw))
             IN  [clock |-> [stamped EXCEPT !.smoothed_ratio = smoothed],
                  some |-> TRUE, ratio |-> smoothed]
        ELSE IF c.last_device_ts = NoTs
        THEN [clock |-> stamped, some |-> FALSE, ratio |-> 0]
        ELSE [clock |-> c, some |-> FALSE, ratio |-> 0]

\* ClockState::submit_feedback: (clock, Some?, smoothed ratio returned)
SubmitFeedback(c, device_ts, source_ts) ==
    LET stamped == [c EXCEPT !.last_device_ts = device_ts,
                             !.last_source_ts = source_ts]
    IN  IF /\ c.last_device_ts # NoTs
           /\ c.last_source_ts # NoTs
           /\ device_ts > c.last_device_ts
           /\ source_ts > c.last_source_ts
        THEN LET raw == RoundDiv((source_ts - c.last_source_ts) * ClockOne,
                                 device_ts - c.last_device_ts)
                 smoothed == Smooth(c.smoothed_ratio, ClampFeedback(raw))
             IN  [clock |-> [stamped EXCEPT !.smoothed_ratio = smoothed],
                  some |-> TRUE, ratio |-> smoothed]
        ELSE [clock |-> stamped, some |-> FALSE, ratio |-> 0]

\* apply_clock_feedback
ApplyClockFeedback(s, device_ts, source_ts) ==
    LET fb == SubmitFeedback(s.clock, device_ts, source_ts)
    IN  IF fb.some
        THEN [s EXCEPT !.clock = fb.clock,
                       !.resampler.ratio = RoundDiv(fb.ratio, ClockPerRatio)]
        ELSE [s EXCEPT !.clock = fb.clock]

\* read_interleaved(buffer, frame_index), the buffer a sequence of samples
ReadInterleaved(buffer, frame_index) ==
    <<buffer[frame_index * Channels + 1], buffer[frame_index * Channels + 2]>>

\* frame_a + (frame_b - frame_a) * t, per channel
Lerp(a, b, t) ==
    <<a[1] * RatioOne + (b[1] - a[1]) * t, a[2] * RatioOne + (b[2] - a[2]) * t>>

\* output[base] += delayed[0] * gain; output[base + 1] += delayed[1] * gain
Accumulate(output, k, delayed, gain) ==
    [output EXCEPT ![k * Channels + 1] = @ + delayed[1] * gain,
                   ![k * Channels + 2] = @ + delayed[2] * gain]

StarvedLoop_NoDrive(st, frames) == st

\* The starved branch: the delay line is driven with silence.
RECURSIVE StarvedLoop(_, _)
StarvedLoop(st, frames) ==
    IF st.k >= frames THEN st
    ELSE LET d == ProcessFrame(st.dl, Silence)
         IN  StarvedLoop([st EXCEPT !.dl = d.dl,
                                    !.out = Accumulate(st.out, st.k, d.frame,
                                                       st.gain),
                                    !.delayed = Append(st.delayed, d.frame),
                                    !.k = st.k + 1],
                         frames)

ToReadFrames_None(expected_input) == 0

\* to_read_frames = expected_input.saturating_sub(1)
ToReadFrames(expected_input) == SatSub(expected_input, 1)

NextCursor_Unclamped(cursor, advance, last_available) == cursor + advance

\* if advance > 0 { input_cursor = (input_cursor + advance).min(last_available) }
NextCursor(cursor, advance, last_available) ==
    IF advance > 0 THEN Min(cursor + advance, last_available) ELSE cursor

\* The resampling loop, one output frame per round.
RECURSIVE ResampleLoop(_, _)
ResampleLoop(st, frames) ==
    IF st.k >= frames THEN st
    ELSE LET frame == IF st.cursor >= st.last_available THEN Silence
                      ELSE Lerp(ReadInterleaved(st.scratch, st.cursor),
                                ReadInterleaved(st.scratch,
                                    Min(st.cursor + 1, st.last_available)),
                                st.phase)
             stepped == st.phase + st.ratio
             advance == stepped \div RatioOne
             d == ProcessFrame(st.dl, frame)
         IN  ResampleLoop(
                 [st EXCEPT !.phase = stepped - advance * RatioOne,
                            !.cursor = NextCursor(st.cursor, advance,
                                                  st.last_available),
                            !.dl = d.dl,
                            !.out = Accumulate(st.out, st.k, d.frame, st.gain),
                            !.delayed = Append(st.delayed, d.frame),
                            !.steps = Append(st.steps,
                                [ratio |-> st.ratio, phase |-> st.phase,
                                 cursor |-> st.cursor,
                                 next_phase |-> stepped - advance * RatioOne,
                                 next_cursor |-> NextCursor(st.cursor, advance,
                                                     st.last_available),
                                 last_available |-> st.last_available]),
                            !.k = st.k + 1],
                 frames)

\* What a mix_into call leaves behind: the source, the output, the frames
\* the delay line returned, the frames popped, the frames discarded and the
\* rounds of the resampling loop.
MixResult(s, output, delayed, popped, discarded, steps) ==
    [src |-> s, out |-> output, delayed |-> delayed, popped |-> popped,
     discarded |-> discarded, steps |-> steps]

MuteGate_Inverted(s) == ~s.mute

\* if self.is_muted() { return; }
MuteGate(s) == s.mute

\* Source::mix_into after the mute check.
MixUnmuted(s, output, frames) ==
    LET s1 == UpdateLatencyState(s)
        disc == IF s1.advance_deficit > 0
                THEN RingDiscard(s1.ring, s1.advance_deficit)
                ELSE [ring |-> s1.ring, ret |-> 0]
        s2 == [s1 EXCEPT !.ring = disc.ring,
                         !.advance_deficit = SatSub(s1.advance_deficit,
                                                    disc.ret)]
        ratio == Clamp(s2.resampler.ratio, RatioMin, RatioMax)
        expected_input == ExpectedInput(frames, ratio)
    IN  IF ScratchTooSmall(expected_input)
        THEN MixResult(s2, output, <<>>, <<>>, disc.ret, <<>>)
        ELSE
        LET pop == RingPop(s2.ring, ToReadFrames(expected_input) * Channels)
            scratch == s2.prev_frame \o pop.out
            total_input_frames == 1 + pop.ret
            popped == SubSeq(pop.out, 1, pop.ret * Channels)
            start == [k |-> 0, dl |-> s2.delay_line, out |-> output,
                      delayed |-> <<>>, steps |-> <<>>, gain |-> s2.gain,
                      scratch |-> scratch,
                      cursor |-> 0, phase |-> s2.resampler.phase,
                      ratio |-> ratio,
                      last_available |-> SatSub(total_input_frames, 1)]
        IN  IF total_input_frames < 2
            THEN LET done == StarvedLoop(start, frames)
                 IN  MixResult([s2 EXCEPT !.ring = pop.ring,
                                          !.delay_line = done.dl],
                               done.out, done.delayed, popped, disc.ret,
                               done.steps)
            ELSE LET done == ResampleLoop(start, frames)
                 IN  MixResult([s2 EXCEPT !.ring = pop.ring,
                                          !.delay_line = done.dl,
                                          !.resampler.phase = done.phase,
                                          !.prev_frame =
                                              ReadInterleaved(scratch,
                                                  start.last_available)],
                               done.out, done.delayed, popped, disc.ret,
                               done.steps)

MixInto_LatencyBeforeMute(s, output, frames) ==
    IF MuteGate(s) THEN MixResult(UpdateLatencyState(s), output, <<>>, <<>>, 0,
                                  <<>>)
    ELSE MixUnmuted(s, output, frames)

\* Source::mix_into
MixInto(s, output, frames) ==
    IF MuteGate(s) THEN MixResult(s, output, <<>>, <<>>, 0, <<>>)
    ELSE MixUnmuted(s, output, frames)

\* ------------------------------------------------- SharedRingBuffer::push
PushBegin(t, len, ts) ==
    /\ MayBegin(t)
    /\ next_sample + len - 1 <= StreamBound
    /\ th' = [th EXCEPT ![t] = PushEntry(@, Block(len), ts, "idle")]
    /\ call' = PushEntryCall(Block(len), ts)
    /\ ncall' = NoNodeCall
    /\ UNCHANGED extVars
    /\ UNCHANGED <<ringVars, node_sources, sequential, ghostVars>>

PushLoadWrite(t) ==
    /\ th[t].pc = "push_load_w"
    /\ th' = [th EXCEPT ![t] =
                [@ EXCEPT !.pc = PushNextPc("push_load_w", 0, FALSE),
                          !.w = write_index]]
    /\ UNCHANGED extVars
    /\ UNCHANGED <<ringVars, node_sources, sequential, call, ncall, ghostVars>>

PushLoadRead(t) ==
    /\ th[t].pc = "push_load_r"
    /\ LET free == PushFree(th[t].w, read_index)
           n == PushFramesToWrite(Len(th[t].buf), th[t].w, read_index)
           next == PushNextPc("push_load_r", free, FALSE)
       IN  IF next = "return"
           THEN /\ th' = [th EXCEPT ![t] = Returned(@, 0)]
                /\ call' = CallDone(call, 0, <<>>)
           ELSE /\ th' = [th EXCEPT ![t] =
                            [@ EXCEPT !.pc = next, !.r = read_index, !.n = n]]
                /\ UNCHANGED call
    /\ UNCHANGED extVars
    /\ UNCHANGED <<ringVars, node_sources, sequential, ncall, ghostVars>>

PushCopyFirst(t) ==
    /\ th[t].pc = "push_copy1"
    /\ data' = CopyInFirst(data, th[t].buf, th[t].w, th[t].n)
    /\ th' = [th EXCEPT ![t] =
                [@ EXCEPT !.pc = PushNextPc("push_copy1", 1,
                             th[t].n > FirstChunkFrames(th[t].w, th[t].n))]]
    /\ UNCHANGED extVars
    /\ UNCHANGED <<write_index, read_index, last_timestamp_ns, node_sources,
                   sequential, call, ncall, ghostVars>>

PushCopySecond(t) ==
    /\ th[t].pc = "push_copy2"
    /\ data' = CopyInSecond(data, th[t].buf, th[t].w, th[t].n)
    /\ th' = [th EXCEPT ![t] =
                [@ EXCEPT !.pc = PushNextPc("push_copy2", 1, TRUE)]]
    /\ UNCHANGED extVars
    /\ UNCHANGED <<write_index, read_index, last_timestamp_ns, node_sources,
                   sequential, call, ncall, ghostVars>>

\* A block pushed directly is offered again from the first sample that was
\* not accepted; push_node_frames consumed its whole block when it began.
PushStoreWrite(t) ==
    /\ th[t].pc = "push_store_w"
    /\ write_index' = th[t].w + th[t].n
    /\ accepted' = accepted \o SubSeq(th[t].buf, 1, th[t].n * Channels)
    /\ next_sample' = IF th[t].cont = "idle"
                      THEN next_sample + th[t].n * Channels ELSE next_sample
    /\ th' = [th EXCEPT ![t] =
                [@ EXCEPT !.pc = PushNextPc("push_store_w", 1, FALSE)]]
    /\ UNCHANGED extVars
    /\ UNCHANGED <<read_index, last_timestamp_ns, data, node_sources,
                   sequential, call, ncall, consumed, accepted_frames,
                   consumed_frames>>

PushStoreTimestamp(t) ==
    /\ th[t].pc = "push_store_ts"
    /\ last_timestamp_ns' = PushTimestamp(th[t].ts)
    /\ th' = [th EXCEPT ![t] = Returned(@, th[t].n)]
    /\ call' = CallDone(call, th[t].n, <<>>)
    /\ accepted_frames' = accepted_frames + th[t].n
    /\ UNCHANGED extVars
    /\ UNCHANGED <<write_index, read_index, data, node_sources, sequential,
                   ncall, next_sample, accepted, consumed, consumed_frames>>

\* -------------------------------------------------- SharedRingBuffer::pop
PopBegin(t, len) ==
    /\ MayBegin(t)
    /\ IF FramesCount(len) = 0
       THEN /\ UNCHANGED th
            /\ call' = CallDone(CallStart("pop", len, NoTs, <<>>), 0,
                                FreshOut(len))
       ELSE /\ th' = [th EXCEPT ![t] = [@ EXCEPT !.pc = "pop_load_w",
                                                 !.buf = FreshOut(len)]]
            /\ call' = CallStart("pop", len, NoTs, <<>>)
    /\ ncall' = NoNodeCall
    /\ UNCHANGED extVars
    /\ UNCHANGED <<ringVars, node_sources, sequential, ghostVars>>

PopLoadWrite(t) ==
    /\ th[t].pc = "pop_load_w"
    /\ th' = [th EXCEPT ![t] = [@ EXCEPT !.pc = "pop_load_r",
                                         !.w = write_index]]
    /\ UNCHANGED extVars
    /\ UNCHANGED <<ringVars, node_sources, sequential, call, ncall, ghostVars>>

PopLoadRead(t) ==
    /\ th[t].pc = "pop_load_r"
    /\ IF RingUsed(th[t].w, read_index) = 0
       THEN /\ th' = [th EXCEPT ![t] = Returned(@, 0)]
            /\ call' = CallDone(call, 0, th[t].buf)
       ELSE /\ th' = [th EXCEPT ![t] =
                        [@ EXCEPT !.pc = "pop_copy1", !.r = read_index,
                                  !.n = PopFramesToRead(Len(th[t].buf),
                                                        th[t].w, read_index)]]
            /\ UNCHANGED call
    /\ UNCHANGED extVars
    /\ UNCHANGED <<ringVars, node_sources, sequential, ncall, ghostVars>>

PopCopyFirst(t) ==
    /\ th[t].pc = "pop_copy1"
    /\ th' = [th EXCEPT ![t] =
                [@ EXCEPT !.buf = CopyOutFirst(th[t].buf, data, th[t].r, th[t].n),
                          !.pc = IF th[t].n > FirstChunkFrames(th[t].r, th[t].n)
                                 THEN "pop_copy2" ELSE "pop_store_r"]]
    /\ UNCHANGED extVars
    /\ UNCHANGED <<ringVars, node_sources, sequential, call, ncall, ghostVars>>

PopCopySecond(t) ==
    /\ th[t].pc = "pop_copy2"
    /\ th' = [th EXCEPT ![t] =
                [@ EXCEPT !.buf = CopyOutSecond(th[t].buf, data, th[t].r, th[t].n),
                          !.pc = "pop_store_r"]]
    /\ UNCHANGED extVars
    /\ UNCHANGED <<ringVars, node_sources, sequential, call, ncall, ghostVars>>

PopStoreRead(t) ==
    /\ th[t].pc = "pop_store_r"
    /\ read_index' = th[t].r + th[t].n
    /\ th' = [th EXCEPT ![t] = Returned(@, th[t].n)]
    /\ call' = CallDone(call, th[t].n, th[t].buf)
    /\ consumed' = consumed \o SubSeq(th[t].buf, 1, th[t].n * Channels)
    /\ consumed_frames' = consumed_frames + th[t].n
    /\ UNCHANGED extVars
    /\ UNCHANGED <<write_index, last_timestamp_ns, data, node_sources,
                   sequential, ncall, next_sample, accepted, accepted_frames>>

\* ---------------------------------------------- SharedRingBuffer::discard
DiscardBegin(t, n) ==
    /\ MayBegin(t)
    /\ th' = [th EXCEPT ![t] = DiscardEntry(@, n, "idle")]
    /\ call' = CallStart("discard", n, NoTs, <<>>)
    /\ ncall' = NoNodeCall
    /\ UNCHANGED extVars
    /\ UNCHANGED <<ringVars, node_sources, sequential, ghostVars>>

DiscardLoadWrite(t) ==
    /\ th[t].pc = "disc_load_w"
    /\ th' = [th EXCEPT ![t] = [@ EXCEPT !.pc = "disc_load_r",
                                         !.w = write_index]]
    /\ UNCHANGED extVars
    /\ UNCHANGED <<ringVars, node_sources, sequential, call, ncall, ghostVars>>

DiscardLoadRead(t) ==
    /\ th[t].pc = "disc_load_r"
    /\ IF RingUsed(th[t].w, read_index) = 0
       THEN /\ th' = [th EXCEPT ![t] = Returned(@, 0)]
            /\ call' = CallDone(call, 0, <<>>)
       ELSE /\ th' = [th EXCEPT ![t] =
                        [@ EXCEPT !.pc = "disc_store_r", !.r = read_index,
                                  !.n = DiscardFrames(th[t].n, th[t].w,
                                                      read_index)]]
            /\ UNCHANGED call
    /\ UNCHANGED extVars
    /\ UNCHANGED <<ringVars, node_sources, sequential, ncall, ghostVars>>

\* The skipped frames are logged as push published them.
DiscardStoreRead(t) ==
    /\ th[t].pc = "disc_store_r"
    /\ read_index' = th[t].r + th[t].n
    /\ th' = [th EXCEPT ![t] = Returned(@, th[t].n)]
    /\ call' = CallDone(call, th[t].n, <<>>)
    /\ consumed' = consumed \o LogicalFrames(accepted, th[t].r, th[t].n)
    /\ consumed_frames' = consumed_frames + th[t].n
    /\ UNCHANGED extVars
    /\ UNCHANGED <<write_index, last_timestamp_ns, data, node_sources,
                   sequential, ncall, next_sample, accepted, accepted_frames>>

\* ---------------------------------------- SharedRingBuffer::available_read
AvailLoadOrder_ReadFirst == <<"read_index", "write_index">>

\* The order of the two acquire loads: write_index, then read_index.
AvailLoadOrder == <<"write_index", "read_index">>

\* The k-th load of the call, into the caller's local of that name.
AvailLoad(rec, k) ==
    IF AvailLoadOrder[k] = "write_index"
    THEN [rec EXCEPT !.w = write_index]
    ELSE [rec EXCEPT !.r = read_index]

\* The call begins with its first load.
AvailLoadFirst ==
    /\ avail.pc = "idle"
    /\ avail' = [AvailLoad(NoAvail, 1) EXCEPT !.pc = "avail_load_2"]
    /\ UNCHANGED <<ringVars, node_sources, th, sequential, call, ncall,
                   ghostVars>>
    /\ UNCHANGED <<mixVars, globalVars, mic_handle, delayVars>>

\* The second load; the value returned is computed from the two locals.
\* readable records the frames published and not yet taken out at that moment.
AvailLoadSecond ==
    /\ avail.pc = "avail_load_2"
    /\ LET rec == AvailLoad(avail, 2)
       IN  avail' = [NoAvail EXCEPT !.ret = RingUsed(rec.w, rec.r),
                                    !.readable = write_index - read_index]
    /\ UNCHANGED <<ringVars, node_sources, th, sequential, call, ncall,
                   ghostVars>>
    /\ UNCHANGED <<mixVars, globalVars, mic_handle, delayVars>>

\* --------------------------------- LoopbackMixerFfi::push_node_frames
NodeReturned(rec) ==
    [rec EXCEPT !.pc = "idle", !.cont = "idle", !.ret = 0,
                !.nd = <<>>, !.nd_ts = 0, !.nd_written = 0]

\* node_entry lookup, the two early returns and the first ring.push. A block
\* that is turned away is offered again.
NodeBegin(t, idx, len, ts) ==
    /\ MayBegin(t)
    /\ next_sample + len - 1 <= StreamBound
    /\ IF idx \notin DOMAIN node_sources
       THEN /\ ncall' = NodeCallDone(NodeCallStart(idx, Block(len)), FALSE)
            /\ call' = CallStart("none", 0, NoTs, <<>>)
            /\ UNCHANGED <<th, next_sample>>
       ELSE IF len = 0
       THEN /\ ncall' = NodeCallDone(NodeCallStart(idx, Block(len)), TRUE)
            /\ call' = CallStart("none", 0, NoTs, <<>>)
            /\ UNCHANGED <<th, next_sample>>
       ELSE IF len % Channels # 0
       THEN /\ ncall' = NodeCallDone(NodeCallStart(idx, Block(len)), FALSE)
            /\ call' = CallStart("none", 0, NoTs, <<>>)
            /\ UNCHANGED <<th, next_sample>>
       ELSE /\ ncall' = NodeCallStart(idx, Block(len))
            /\ th' = [th EXCEPT ![t] =
                        PushEntry([@ EXCEPT !.nd = Block(len), !.nd_ts = ts],
                                  Block(len), ts, "node_after_push1")]
            /\ call' = PushEntryCall(Block(len), ts)
            /\ next_sample' = next_sample + len
    /\ UNCHANGED extVars
    /\ UNCHANGED <<ringVars, node_sources, sequential, accepted, consumed,
                   accepted_frames, consumed_frames>>

\* if written < frames { entry.ring.discard(frames - written); ...
NodeAfterPush1(t) ==
    /\ th[t].pc = "node_after_push1"
    /\ IF th[t].ret < FramesCount(Len(th[t].nd))
       THEN /\ th' = [th EXCEPT ![t] =
                        DiscardEntry([@ EXCEPT !.nd_written = th[t].ret,
                                               !.ret = 0],
                                     FramesCount(Len(th[t].nd)) - th[t].ret,
                                     "node_after_discard")]
            /\ call' = CallStart("discard",
                                 FramesCount(Len(th[t].nd)) - th[t].ret,
                                 NoTs, <<>>)
            /\ UNCHANGED ncall
       ELSE /\ th' = [th EXCEPT ![t] = NodeReturned(@)]
            /\ ncall' = NodeCallDone(ncall, TRUE)
            /\ UNCHANGED call
    /\ UNCHANGED extVars
    /\ UNCHANGED <<ringVars, node_sources, sequential, ghostVars>>

\* ... let _ = entry.ring.push(&data[written * MIX_CHANNELS..], ts)
NodeAfterDiscard(t) ==
    /\ th[t].pc = "node_after_discard"
    /\ LET rest == SliceFrom(th[t].nd, th[t].nd_written * Channels)
       IN  /\ th' = [th EXCEPT ![t] =
                       PushEntry([@ EXCEPT !.ret = 0], rest, th[t].nd_ts,
                                 "node_after_push2")]
           /\ call' = PushEntryCall(rest, th[t].nd_ts)
    /\ UNCHANGED extVars
    /\ UNCHANGED <<ringVars, node_sources, sequential, ncall, ghostVars>>

NodeAfterPush2(t) ==
    /\ th[t].pc = "node_after_push2"
    /\ th' = [th EXCEPT ![t] = NodeReturned(@)]
    /\ ncall' = NodeCallDone(ncall, TRUE)
    /\ UNCHANGED extVars
    /\ UNCHANGED <<ringVars, node_sources, sequential, call, ghostVars>>

\* ------------------------------------------------------------- Mixer
FindSource_ZeroBased(handle) ==
    IF handle + 1 \in 1..Len(sources) THEN handle + 1 ELSE 0

\* self.sources.iter().find(|s| s.handle == handle): the position of the
\* first source with that handle, 0 for None.
FindSource(handle) ==
    IF \E i \in 1..Len(sources) : sources[i].handle = handle
    THEN CHOOSE i \in 1..Len(sources) :
            /\ sources[i].handle = handle
            /\ \A j \in 1..(i - 1) : sources[j].handle # handle
    ELSE 0

\* The samples of the n frames source i's producer offers next.
MixBlock(i, n) ==
    [k \in 1..(n * Channels) |->
        (i - 1) * MaxMixFrames * Channels + fed[i] * Channels + k]

ControlHandles == 0..MaxSources
Gains == {0, 1, 2}
Latencies == (0 - MaxLatency)..MaxLatency
ChannelCounts == 1..(Channels + 1)
FeedbackTs == 1..(MaxTs + 2)

MayControl == render.pc = "idle" /\ ncontrol < MaxControl

BumpSourceId_Stuck(id) == id

\* self.next_source_id += 1
BumpSourceId(id) == id + 1

\* Mixer::add_source, for a mixer that registers at most `limit` sources.
AddSource(limit) ==
    /\ render.pc = "idle"
    /\ Len(sources) < limit
    /\ sources' = Append(sources, NewSource(next_source_id))
    /\ next_source_id' = BumpSourceId(next_source_id)
    /\ fed' = Append(fed, 0)
    /\ UNCHANGED <<render, ctl, blocks, ncontrol>>
    /\ UNCHANGED coreVars

\* Mixer::add_external_source with a ring made elsewhere (new_local or
\* from shared memory); the handle is all it returns.
AddExternalSource(limit) ==
    /\ render.pc = "idle"
    /\ Len(sources) < limit
    /\ sources' = Append(sources, NewSource(next_source_id))
    /\ next_source_id' = BumpSourceId(next_source_id)
    /\ fed' = Append(fed, 0)
    /\ ctl' = [op |-> "add_external_source", handle |-> next_source_id,
               args |-> <<>>,
               ret |-> <<"Ok", next_source_id>>]
    /\ UNCHANGED <<render, blocks, ncontrol>>
    /\ UNCHANGED coreVars

\* The producer of source i pushes into the ring it was handed by
\* add_source; its stream is `limit` frames long.
ProducerPush(i, n, limit) ==
    /\ i \in 1..Len(sources)
    /\ fed[i] + n <= limit
    /\ LET res == RingPush(sources[i].ring, MixBlock(i, n), NoTs)
       IN  /\ sources' = [sources EXCEPT ![i].ring = res.ring]
           /\ fed' = [fed EXCEPT ![i] = @ + res.ret]
    /\ UNCHANGED <<next_source_id, render, ctl, blocks, ncontrol>>
    /\ UNCHANGED coreVars

\* Mixer::write_source
WriteSource(handle, n) ==
    /\ MayControl
    /\ LET i == FindSource(handle)
       IN  IF i = 0
           THEN /\ ctl' = [op |-> "write_source", handle |-> handle,
                           args |-> <<>>,
                           ret |-> <<"UnknownSource", handle>>]
                /\ UNCHANGED <<sources, fed>>
           ELSE /\ fed[i] + n <= MaxMixFrames
                /\ LET res == RingPush(sources[i].ring, MixBlock(i, n), NoTs)
                   IN  /\ sources' = [sources EXCEPT ![i].ring = res.ring]
                       /\ fed' = [fed EXCEPT ![i] = @ + res.ret]
                       /\ ctl' = [op |-> "write_source", handle |-> handle,
                                  args |-> <<>>,
                                  ret |-> <<"Ok", res.ret>>]
    /\ ncontrol' = ncontrol + 1
    /\ UNCHANGED <<next_source_id, render, blocks>>
    /\ UNCHANGED coreVars

\* A control call that stores one field of the source it finds; updated[i]
\* is source i after the store.
ControlStore(op, handle, args, updated) ==
    /\ MayControl
    /\ LET i == FindSource(handle)
       IN  IF i = 0
           THEN /\ ctl' = [op |-> op, handle |-> handle,
                           args |-> args,
                           ret |-> <<"UnknownSource", handle>>]
                /\ UNCHANGED sources
           ELSE /\ sources' = [sources EXCEPT ![i] = updated[i]]
                /\ ctl' = [op |-> op, handle |-> handle,
                           args |-> args, ret |-> <<"Ok", 0>>]
    /\ ncontrol' = ncontrol + 1
    /\ UNCHANGED <<next_source_id, render, fed, blocks>>
    /\ UNCHANGED coreVars

\* Mixer::set_gain
SetGain(handle, gain) ==
    LET updated == [i \in 1..Len(sources) |->
                       [sources[i] EXCEPT !.gain = gain]]
    IN  ControlStore("set_gain", handle, <<>>, updated)

\* Mixer::set_mute
SetMute(handle, mute) ==
    LET updated == [i \in 1..Len(sources) |->
                       [sources[i] EXCEPT !.mute = mute]]
    IN  ControlStore("set_mute", handle, <<>>, updated)

\* Mixer::set_latency
SetLatency(handle, frames) ==
    LET updated == [i \in 1..Len(sources) |->
                       [sources[i] EXCEPT !.latency_frames = frames]]
    IN  ControlStore("set_latency", handle, <<>>, updated)

\* Mixer::submit_clock_feedback
SubmitClockFeedback(handle, device_ts, source_ts) ==
    LET updated == [i \in 1..Len(sources) |->
                       ApplyClockFeedback(sources[i], device_ts, source_ts)]
    IN  ControlStore("submit_clock_feedback", handle, <<device_ts, source_ts>>,
                     updated)

\* The device clock's step between two feedback pairs, and the steps of
\* the source clocks that go with it: ratios 0.97, 0.99, 1, 1.01 and 1.03.
DeviceDelta == 100
SourceDeltas == {97, 99, 100, 101, 103}

\* Mixer::submit_clock_feedback for the next pair of a steady stream: the
\* two clocks advance by device_delta and source_delta from pair to pair.
SteadyFeedback(handle, device_delta, source_delta, limit) ==
    /\ render.pc = "idle"
    /\ ncontrol < limit
    /\ LET i == FindSource(handle)
       IN  /\ i # 0
           /\ ncontrol > 0 =>
                 /\ sources[i].clock.last_device_ts = ncontrol * device_delta
                 /\ sources[i].clock.last_source_ts = ncontrol * source_delta
           /\ sources' = [sources EXCEPT
                             ![i] = ApplyClockFeedback(
                                        @, (ncontrol + 1) * device_delta,
                                        (ncontrol + 1) * source_delta)]
    /\ ctl' = [op |-> "submit_clock_feedback", handle |-> handle,
               args |-> <<(ncontrol + 1) * device_delta,
                          (ncontrol + 1) * source_delta>>,
               ret |-> <<"Ok", 0>>]
    /\ ncontrol' = ncontrol + 1
    /\ UNCHANGED <<next_source_id, render, fed, blocks>>
    /\ UNCHANGED coreVars

FillZero_Skipped(output, frames) == output

\* output.fill(0.0) over the first frames * MIX_CHANNELS samples
FillZero(output, frames) ==
    [i \in 1..Len(output) |-> IF i <= frames * Channels THEN 0 ELSE output[i]]

ProcessEntry_FillBeforeCheck(channels, frames) ==
    IF channels # Channels
    THEN [NoRender EXCEPT !.channels = channels,
                          !.output = FillZero(GivenBuffer, frames),
                          !.ret = <<"UnsupportedChannels", channels>>]
    ELSE IF frames = 0
    THEN [NoRender EXCEPT !.channels = channels, !.ret = <<"Ok", 0>>]
    ELSE [NoRender EXCEPT !.pc = "mix", !.channels = channels,
                          !.frames = frames,
                          !.output = FillZero(GivenBuffer, frames)]

ProcessEntry_NoEmptyReturn(channels, frames) ==
    IF channels # Channels
    THEN [NoRender EXCEPT !.channels = channels,
                          !.ret = <<"UnsupportedChannels", channels>>]
    ELSE [NoRender EXCEPT !.pc = "mix", !.channels = channels,
                          !.frames = frames,
                          !.output = FillZero(GivenBuffer, frames)]

\* Mixer::process up to the loop over the sources: the channel check, the
\* return for an empty block, the zero fill.
ProcessEntry(channels, frames) ==
    IF channels # Channels
    THEN [NoRender EXCEPT !.channels = channels,
                          !.ret = <<"UnsupportedChannels", channels>>]
    ELSE IF frames = 0
    THEN [NoRender EXCEPT !.channels = channels, !.ret = <<"Ok", 0>>]
    ELSE [NoRender EXCEPT !.pc = "mix", !.channels = channels,
                          !.frames = frames,
                          !.output = FillZero(GivenBuffer, frames)]

ProcessBegin(channels, frames) ==
    /\ render.pc = "idle"
    /\ blocks < MaxBlocks
    /\ blocks' = blocks + 1
    /\ render' = ProcessEntry(channels, frames)
    /\ UNCHANGED <<sources, next_source_id, ctl, fed, ncontrol>>
    /\ UNCHANGED coreVars

\* What Mixer::process keeps of one mix_into call: the source as the call
\* left it, the block, and the call's record in the log.
StoreMixed(i, res) ==
    /\ sources' = [sources EXCEPT ![i] = res.src]
    /\ render' = [render EXCEPT
                     !.idx = i,
                     !.output = res.out,
                     !.mixed = Append(@, [src |-> sources[i],
                                          delayed |-> res.delayed,
                                          popped |-> res.popped,
                                          discarded |-> res.discarded,
                                          steps |-> res.steps])]

\* One round of the loop: source.mix_into(output, frames).
ProcessMixNext ==
    /\ render.pc = "mix"
    /\ render.idx < Len(sources)
    /\ StoreMixed(render.idx + 1,
                  MixInto(sources[render.idx + 1], render.output,
                          render.frames))
    /\ UNCHANGED <<next_source_id, ctl, fed, blocks, ncontrol>>
    /\ UNCHANGED coreVars

\* Ok(frames)
ProcessReturn ==
    /\ render.pc = "mix"
    /\ render.idx = Len(sources)
    /\ render' = [render EXCEPT !.pc = "idle", !.ret = <<"Ok", render.frames>>]
    /\ UNCHANGED <<sources, next_source_id, ctl, fed, blocks, ncontrol>>
    /\ UNCHANGED coreVars

\* ------------------------------------------- a DelayLine, call by call
\* The frame the k-th process_frame call is given.
DelayFrame(k) == <<2 * k - 1, 2 * k>>

\* Arguments of set_target: below the capacity and above it.
DelayTargets == {0, 1, DelayCapacity - 1, DelayCapacity + 1}

\* Those below the capacity.
DelayLagTargets == {f \in DelayTargets : f < DelayCapacity}

\* Arguments of drop_frames.
DelayDrops == {1, DelayCapacity}

\* calls: process_frame calls so far; since: those after the last
\* set_target; lowered: the last set_target asked for fewer frames than the
\* line held; frame: what the last process_frame returned; dropped: what the
\* last drop_frames returned.
NoDelayLog ==
    [op |-> "new", arg |-> 0, calls |-> 0, since |-> 0, lowered |-> FALSE,
     frame |-> Silence, dropped |-> 0]

\* DelayLine::set_target(frames)
DelayLineSetTarget(frames) ==
    /\ delay_line' = SetTarget(delay_line, frames)
    /\ delay_log' = [delay_log EXCEPT !.op = "set_target", !.arg = frames,
                                      !.since = 0,
                                      !.lowered = frames < delay_line.len]
    /\ UNCHANGED <<ringVars, node_sources, th, sequential, call, ncall,
                   ghostVars, avail, mixVars, globalVars, mic_handle>>

\* DelayLine::drop_frames(frames)
DelayLineDropFrames(frames) ==
    /\ LET res == DropFrames(delay_line, frames)
       IN  /\ delay_line' = res.dl
           /\ delay_log' = [delay_log EXCEPT !.op = "drop_frames",
                                             !.arg = frames,
                                             !.dropped = res.ret]
    /\ UNCHANGED <<ringVars, node_sources, th, sequential, call, ncall,
                   ghostVars, avail, mixVars, globalVars, mic_handle>>

\* DelayLine::process_frame(frame) with the next frame of the input
DelayLineProcessFrame ==
    /\ delay_log.calls < MaxDelayCalls
    /\ LET res == ProcessFrame(delay_line, DelayFrame(delay_log.calls + 1))
       IN  /\ delay_line' = res.dl
           /\ delay_log' = [delay_log EXCEPT !.op = "process_frame",
                                             !.arg = 0,
                                             !.calls = @ + 1,
                                             !.since = @ + 1,
                                             !.frame = res.frame]
    /\ UNCHANGED <<ringVars, node_sources, th, sequential, call, ncall,
                   ghostVars, avail, mixVars, globalVars, mic_handle>>

\* Everything outside the LoopbackMixerFfi and its Mixer's source list.
InitShared ==
    /\ write_index = 0
    /\ read_index = 0
    /\ last_timestamp_ns = 0
    /\ data = ZeroData
    /\ th = [t \in Threads |-> IdleThread]
    /\ call = NoCall
    /\ ncall = NoNodeCall
    /\ next_sample = 1
    /\ accepted = <<>>
    /\ consumed = <<>>
    /\ accepted_frames = 0
    /\ consumed_frames = 0
    /\ avail = NoAvail
    /\ render = NoRender
    /\ ctl = NoControl
    /\ blocks = 0
    /\ ncontrol = 0
    /\ loopback_global = Null
    /\ boxes = [a \in Addresses |-> Freed]
    /\ created = 0
    /\ destroying = NoDestroy
    /\ status_call = NoStatusCall
    /\ delay_line = NewDelayLine
    /\ delay_log = NoDelayLog

\* A ring that is the ring of node source 1 (registered under handle 2), and
\* a Mixer as Mixer::new leaves it.
InitRing ==
    /\ InitShared
    /\ node_sources = [idx \in {1} |-> idx + 1]
    /\ sources = <<>>
    /\ next_source_id = 1
    /\ fed = <<>>
    /\ mic_handle = NoHandle

Init == InitRing /\ sequential = FALSE

InitSeq == InitRing /\ sequential = TRUE

\* ----------------------------------------------------- LoopbackMixerFfi
\* source_index == 0: the microphone
MicSourceIndex == 0

\* Source indices a caller may pass: 0, the node indices, and one that is
\* never registered.
LoopbackIndices == 0..MaxSourceIndex

\* LoopbackMixerFfi::new: Mixer::new, then add_source for the microphone.
InitLoopback ==
    /\ InitShared
    /\ sequential = FALSE
    /\ node_sources = <<>>
    /\ sources = <<NewSource(1)>>
    /\ next_source_id = 2
    /\ fed = <<0>>
    /\ mic_handle = 1

\* self.node_sources.read().contains_key(&source_index)
IsRegistered(source_index) == source_index \in DOMAIN node_sources

\* LoopbackMixerFfi::register_node_source, for a mixer that holds at most
\* `limit` sources, the microphone included.
RegisterNodeSource(source_index, limit) ==
    /\ MayControl
    /\ IsRegistered(source_index) \/ Len(sources) < limit
    /\ IF IsRegistered(source_index)
       THEN UNCHANGED <<sources, next_source_id, fed, node_sources>>
       ELSE /\ sources' = Append(sources, NewSource(next_source_id))
            /\ next_source_id' = BumpSourceId(next_source_id)
            /\ fed' = Append(fed, 0)
            /\ node_sources' =
                  [idx \in DOMAIN node_sources \cup {source_index} |->
                      IF idx = source_index THEN next_source_id
                      ELSE node_sources[idx]]
    /\ ctl' = [op |-> "register_node_source", handle |-> source_index,
               args |-> <<>>,
               ret |-> <<"true", 0>>]
    /\ ncontrol' = ncontrol + 1
    /\ UNCHANGED <<render, blocks>>
    /\ UNCHANGED <<ringVars, th, sequential, call, ncall, ghostVars, avail,
                   globalVars, mic_handle, delayVars>>

\* Calls of register_node_source that have read node_sources and not yet
\* written it.
RegistersInFlight ==
    Cardinality({t \in Threads : th[t].pc = "register_add"})

\* LoopbackMixerFfi::register_node_source up to the end of its read of
\* node_sources, called on thread t through
\* loopback_mixer_register_node_source: the read lock is released before
\* add_source runs, and nothing else orders two callers.
RegisterCheck(t, source_index, limit) ==
    /\ th[t].pc = "idle"
    /\ render.pc = "idle"
    /\ ncontrol + RegistersInFlight < MaxControl
    /\ IsRegistered(source_index)
          \/ Len(sources) + RegistersInFlight < limit
    /\ IF IsRegistered(source_index)
       THEN /\ ctl' = [op |-> "register_node_source",
                       handle |-> source_index, args |-> <<>>,
                       ret |-> <<"true", 0>>]
            /\ ncontrol' = ncontrol + 1
            /\ UNCHANGED th
       ELSE /\ th' = [th EXCEPT ![t].pc = "register_add",
                                ![t].n = source_index]
            /\ UNCHANGED <<ctl, ncontrol>>
    /\ UNCHANGED <<sources, next_source_id, fed, node_sources>>
    /\ UNCHANGED <<render, blocks>>
    /\ UNCHANGED <<ringVars, sequential, call, ncall, ghostVars, avail,
                   globalVars, mic_handle, delayVars>>

\* The rest of register_node_source on thread t: Mixer::add_source, then
\* node_sources.write().insert, which replaces an entry another caller
\* stored since this caller's read.
RegisterInsert(t) ==
    /\ th[t].pc = "register_add"
    /\ LET source_index == th[t].n
       IN  /\ sources' = Append(sources, NewSource(next_source_id))
           /\ next_source_id' = BumpSourceId(next_source_id)
           /\ fed' = Append(fed, 0)
           /\ node_sources' =
                 [idx \in DOMAIN node_sources \cup {source_index} |->
                     IF idx = source_index THEN next_source_id
                     ELSE node_sources[idx]]
           /\ ctl' = [op |-> "register_node_source",
                      handle |-> source_index, args |-> <<>>,
                      ret |-> <<"true", 0>>]
    /\ ncontrol' = ncontrol + 1
    /\ th' = [th EXCEPT ![t] = IdleThread]
    /\ UNCHANGED <<render, blocks>>
    /\ UNCHANGED <<ringVars, sequential, call, ncall, ghostVars, avail,
                   globalVars, mic_handle, delayVars>>

\* The handle LoopbackMixerFfi::set_gain / set_mute hand to the Mixer:
\* mic_handle for index 0, the entry's handle for a registered index,
\* otherwise none (the call returns false).
TargetHandle(source_index) ==
    IF source_index = MicSourceIndex THEN mic_handle
    ELSE IF IsRegistered(source_index) THEN node_sources[source_index]
    ELSE NoHandle

\* A LoopbackMixerFfi control call that stores one field of the source its
\* index stands for; updated[i] is source i after the store.
LoopbackStore(op, source_index, updated) ==
    /\ MayControl
    /\ LET handle == TargetHandle(source_index)
           i == FindSource(handle)
       IN  /\ sources' = IF handle = NoHandle \/ i = 0 THEN sources
                         ELSE [sources EXCEPT ![i] = updated[i]]
           /\ ctl' = [op |-> op, handle |-> source_index,
                      args |-> <<>>,
                      ret |-> IF handle = NoHandle THEN <<"false", 0>>
                              ELSE <<"true", 0>>]
    /\ ncontrol' = ncontrol + 1
    /\ UNCHANGED <<next_source_id, render, fed, blocks>>
    /\ UNCHANGED coreVars

\* LoopbackMixerFfi::set_gain
LoopbackSetGain(source_index, gain) ==
    LET updated == [i \in 1..Len(sources) |->
                       [sources[i] EXCEPT !.gain = gain]]
    IN  LoopbackStore("loopback_set_gain", source_index, updated)

\* LoopbackMixerFfi::set_mute
LoopbackSetMute(source_index, mute) ==
    LET updated == [i \in 1..Len(sources) |->
                       [sources[i] EXCEPT !.mute = mute]]
    IN  LoopbackStore("loopback_set_mute", source_index, updated)

\* Mixer::collect_status(mic_handle): one entry per source, in mix order.
CollectStatus ==
    [n \in 1..Len(sources) |->
        [id |-> sources[n].handle,
         name |-> IF sources[n].handle = mic_handle THEN "Microphone"
                  ELSE "Source #",
         gain_linear |-> sources[n].gain,
         muted |-> sources[n].mute,
         latency_frames |-> sources[n].latency_frames]]

\* LoopbackMixerFfi::submit_input: write_source(self.mic_handle, slice,
\* Some(monotonic_timestamp_ns())); the result is dropped.
SubmitInput(frames, timestamp_ns) ==
    /\ frames > 0
    /\ LET i == FindSource(mic_handle)
       IN  /\ i # 0
           /\ fed[i] + frames <= MaxMixPush
           /\ LET res == RingPush(sources[i].ring, MixBlock(i, frames),
                                  timestamp_ns)
              IN  /\ sources' = [sources EXCEPT ![i].ring = res.ring]
                  /\ fed' = [fed EXCEPT ![i] = @ + res.ret]
    /\ UNCHANGED <<next_source_id, render, ctl, blocks, ncontrol>>
    /\ UNCHANGED coreVars

\* LoopbackMixerFfi::push_node_frames on the entry's ring as one step: ring
\* after the call and frames of the block the ring holds by then.
NodePush(rg, block, timestamp_ns) ==
    LET frames == FramesCount(Len(block))
        first == RingPush(rg, block, timestamp_ns)
        drop_frames == frames - first.ret
        disc == RingDiscard(first.ring, drop_frames)
        rest == RingPush(disc.ring,
                         SubSeq(block, first.ret * Channels + 1, Len(block)),
                         timestamp_ns)
    IN  IF first.ret < frames
        THEN [ring |-> rest.ring, ret |-> first.ret + rest.ret]
        ELSE [ring |-> first.ring, ret |-> first.ret]

\* loopback_mixer_push_node_frames with frames > 0 and data not null
PushNodeFrames(source_index, frames, timestamp_ns) ==
    /\ frames > 0
    /\ IF ~IsRegistered(source_index)
       THEN /\ ctl' = [op |-> "push_node_frames", handle |-> source_index,
                       args |-> <<>>,
                       ret |-> <<"false", 0>>]
            /\ UNCHANGED <<sources, fed>>
       ELSE LET i == FindSource(node_sources[source_index])
            IN  /\ fed[i] + frames <= MaxMixPush
                /\ LET res == NodePush(sources[i].ring, MixBlock(i, frames),
                                       timestamp_ns)
                   IN  /\ sources' = [sources EXCEPT ![i].ring = res.ring]
                       /\ fed' = [fed EXCEPT ![i] = @ + res.ret]
                /\ ctl' = [op |-> "push_node_frames", handle |-> source_index,
                           args |-> <<>>,
                           ret |-> <<"true", 0>>]
    /\ UNCHANGED <<next_source_id, render, blocks, ncontrol>>
    /\ UNCHANGED coreVars

\* loopback_mixer_process with a buffer list of one buffer whose data is
\* not null: LoopbackMixerFfi::process returns Ok for an empty block,
\* checks the channels, zeroes the block and calls Mixer::process.
LoopbackProcessBegin(channels, frame_count) ==
    /\ render.pc = "idle"
    /\ blocks < MaxBlocks
    /\ blocks' = blocks + 1
    /\ render' = IF frame_count = 0
                 THEN [NoRender EXCEPT !.channels = channels,
                                       !.ret = <<"Ok", 0>>]
                 ELSE ProcessEntry(channels, frame_count)
    /\ UNCHANGED <<sources, next_source_id, ctl, fed, ncontrol>>
    /\ UNCHANGED coreVars

\* ------------------------------------------------------ LOOPBACK_GLOBAL
\* Everything but the global handle and the boxes it may point at.
localVars == <<ringVars, node_sources, th, sequential, call, ncall, ghostVars,
               avail, mixVars, mic_handle, delayVars>>

\* The addresses that hold a live LoopbackMixerFfi.
LiveBoxes == {a \in Addresses : boxes[a] # Freed}

\* loopback_mixer_create: Box::into_raw(Box::new(mixer)) at any free
\* address, then LOOPBACK_GLOBAL.store(raw).
LoopbackMixerCreate ==
    /\ destroying.pc = "idle"
    /\ created < MaxCreated
    /\ \E raw \in Addresses \ LiveBoxes :
          /\ boxes' = [boxes EXCEPT ![raw] = created + 1]
          /\ loopback_global' = raw
    /\ created' = created + 1
    /\ UNCHANGED <<destroying, status_call>>
    /\ UNCHANGED localVars

\* loopback_mixer_destroy(handle), for null or a handle create returned that
\* was not destroyed yet: let stored = LOOPBACK_GLOBAL.load(SeqCst)
LoopbackMixerDestroyLoad(handle) ==
    /\ destroying.pc = "idle"
    /\ handle \in LiveBoxes \cup {Null}
    /\ destroying' = IF handle = Null THEN NoDestroy
                     ELSE [pc |-> "compare", handle |-> handle,
                           stored |-> loopback_global]
    /\ UNCHANGED <<loopback_global, boxes, created, status_call>>
    /\ UNCHANGED localVars

ClearsGlobal_Never(stored, handle) == FALSE

\* if stored == handle
ClearsGlobal(stored, handle) == stored = handle

\* LOOPBACK_GLOBAL.store(ptr::null_mut(), SeqCst) when the two are equal
LoopbackMixerDestroyClear ==
    /\ destroying.pc = "compare"
    /\ loopback_global' =
          IF ClearsGlobal(destroying.stored, destroying.handle) THEN Null
          ELSE loopback_global
    /\ destroying' = [destroying EXCEPT !.pc = "drop"]
    /\ UNCHANGED <<boxes, created, status_call>>
    /\ UNCHANGED localVars

\* drop(Box::from_raw(handle))
LoopbackMixerDestroyDrop ==
    /\ destroying.pc = "drop"
    /\ boxes' = [boxes EXCEPT ![destroying.handle] = Freed]
    /\ destroying' = NoDestroy
    /\ UNCHANGED <<loopback_global, created, status_call>>
    /\ UNCHANGED localVars

\* get_mixer_status: let handle = loopback_mixer_global_handle(); None when
\* it is null.
GetMixerStatusLoad ==
    /\ status_call.pc = "idle"
    /\ status_call' =
          IF loopback_global = Null
          THEN [NoStatusCall EXCEPT !.ret = "None"]
          ELSE [NoStatusCall EXCEPT !.pc = "deref",
                                    !.handle = loopback_global,
                                    !.born = boxes[loopback_global]]
    /\ UNCHANGED <<loopback_global, boxes, created, destroying>>
    /\ UNCHANGED localVars

\* Some((&*handle).status()): the box is read wherever the pointer leads;
\* was_live records whether the mixer the pointer was loaded for is still
\* there.
GetMixerStatusDeref ==
    /\ status_call.pc = "deref"
    /\ LET live == boxes[status_call.handle] = status_call.born
       IN  status_call' = [status_call EXCEPT
                              !.pc = "idle",
                              !.dereferenced = status_call.born,
                              !.was_live = live,
                              !.ret = IF live THEN "Some" ELSE "dangling"]
    /\ UNCHANGED <<loopback_global, boxes, created, destroying>>
    /\ UNCHANGED localVars

\* ------------------------------------------------------ specifications
PushStep(t) ==
    \/ PushLoadWrite(t)
    \/ PushLoadRead(t)
    \/ PushCopyFirst(t)
    \/ PushCopySecond(t)
    \/ PushStoreWrite(t)
    \/ PushStoreTimestamp(t)

PopStep(t) ==
    \/ PopLoadWrite(t)
    \/ PopLoadRead(t)
    \/ PopCopyFirst(t)
    \/ PopCopySecond(t)
    \/ PopStoreRead(t)

DiscardStep(t) ==
    \/ DiscardLoadWrite(t)
    \/ DiscardLoadRead(t)
    \/ DiscardStoreRead(t)

NodeStep(t) ==
    \/ NodeAfterPush1(t)
    \/ NodeAfterDiscard(t)
    \/ NodeAfterPush2(t)

\* One producer thread calling push, one consumer thread calling pop and
\* discard, every interleaving of their steps.
Next ==
    \/ \E len \in 0..MaxPushLen, ts \in TsInputs : PushBegin("producer", len, ts)
    \/ \E len \in 0..MaxOutLen : PopBegin("consumer", len)
    \/ \E n \in 0..MaxDiscard : DiscardBegin("consumer", n)
    \/ PushStep("producer")
    \/ PopStep("consumer")
    \/ DiscardStep("consumer")

Spec == Init /\ [][Next]_vars

\* Calls made one at a time: push, pop, discard and push_node_frames.
NextSeq ==
    \/ \E len \in 0..MaxPushLen, ts \in TsInputs : PushBegin("producer", len, ts)
    \/ \E len \in 0..MaxOutLen : PopBegin("consumer", len)
    \/ \E n \in 0..MaxDiscard : DiscardBegin("consumer", n)
    \/ \E idx \in SourceIndices, len \in 0..MaxNodeLen, ts \in 1..MaxTs :
          NodeBegin("producer", idx, len, ts)
    \/ PushStep("producer")
    \/ PopStep("consumer")
    \/ \E t \in Threads : DiscardStep(t)
    \/ NodeStep("producer")

SpecSeq == InitSeq /\ [][NextSeq]_vars

\* The producer thread feeds the ring through push_node_frames while the
\* render thread pops and discards.
NextNode ==
    \/ \E idx \in SourceIndices, len \in 0..MaxNodeLen, ts \in 1..MaxTs :
          NodeBegin("producer", idx, len, ts)
    \/ \E len \in 0..MaxOutLen : PopBegin("consumer", len)
    \/ \E n \in 0..MaxDiscard : DiscardBegin("consumer", n)
    \/ PushStep("producer")
    \/ PopStep("consumer")
    \/ \E t \in Threads : DiscardStep(t)
    \/ NodeStep("producer")

SpecNode == Init /\ [][NextNode]_vars

\* A third thread calls available_read() while the producer pushes and the
\* consumer pops and discards.
NextAvail ==
    \/ \E len \in 0..MaxPushLen, ts \in TsInputs : PushBegin("producer", len, ts)
    \/ \E len \in 0..MaxOutLen : PopBegin("consumer", len)
    \/ \E n \in 0..MaxDiscard : DiscardBegin("consumer", n)
    \/ PushStep("producer")
    \/ PopStep("consumer")
    \/ DiscardStep("consumer")
    \/ AvailLoadFirst
    \/ AvailLoadSecond

SpecAvail == Init /\ [][NextAvail]_vars

\* One source: fed by its producer at any time, also during a render
\* block, muted, given a latency and a gain, and rendered block by block.
NextSource ==
    \/ AddSource(1)
    \/ \E n \in 1..MaxMixPush : ProducerPush(1, n, MaxMixFrames)
    \/ \E g \in Gains : SetGain(1, g)
    \/ \E m \in BOOLEAN : SetMute(1, m)
    \/ \E l \in Latencies : SetLatency(1, l)
    \/ \E f \in 0..MaxFrames : ProcessBegin(Channels, f)
    \/ ProcessMixNext
    \/ ProcessReturn

SpecSource == Init /\ [][NextSource]_vars

\* Several sources mixed into one buffer, with any channel count and block
\* length the caller may pass.
NextMix ==
    \/ AddSource(MaxSources)
    \/ \E i \in 1..MaxSources, n \in 1..MaxMixPush :
          ProducerPush(i, n, MaxMixPush)
    \/ \E h \in 1..MaxSources, g \in Gains \ {1} : SetGain(h, g)
    \/ \E h \in 1..MaxSources : SetMute(h, TRUE)
    \/ \E c \in ChannelCounts, f \in 0..MaxFrames : ProcessBegin(c, f)
    \/ ProcessMixNext
    \/ ProcessReturn

SpecMix == Init /\ [][NextMix]_vars

\* The loop of Mixer::process has a source left to mix: the guard of
\* ProcessMixNext, which is total on it and always moves render.idx, so this
\* is ENABLED <<ProcessMixNext>>_vars.
MixPending == render.pc = "mix" /\ render.idx < Len(sources)

\* The render thread is scheduled: a block that has begun goes on, whatever
\* the producers do. The second conjunct is WF_vars(ProcessMixNext) written
\* out with MixPending for the enabling condition.
SpecMixFair ==
    /\ Init
    /\ [][NextMix]_vars
    /\ WF_vars(ProcessReturn)
    /\ ([]<>(~MixPending) \/ []<><<ProcessMixNext>>_vars)

\* The control calls, with handles the mixer handed out and handles it did
\* not.
NextControl ==
    \/ AddSource(MaxSources)
    \/ AddExternalSource(MaxSources)
    \/ \E h \in ControlHandles, n \in 1..MaxMixPush : WriteSource(h, n)
    \/ \E h \in ControlHandles, g \in Gains : SetGain(h, g)
    \/ \E h \in ControlHandles, m \in BOOLEAN : SetMute(h, m)
    \/ \E h \in ControlHandles, l \in Latencies : SetLatency(h, l)
    \/ \E h \in ControlHandles, d \in FeedbackTs, t \in FeedbackTs :
          SubmitClockFeedback(h, d, t)

SpecControl == Init /\ [][NextControl]_vars

\* One thread creates and destroys loopback mixers, one call after the
\* other.
NextGlobalSeq ==
    \/ LoopbackMixerCreate
    \/ \E handle \in Addresses \cup {Null} : LoopbackMixerDestroyLoad(handle)
    \/ LoopbackMixerDestroyClear
    \/ LoopbackMixerDestroyDrop

SpecGlobalSeq == Init /\ [][NextGlobalSeq]_vars

\* The same, with a second thread that calls get_mixer_status.
NextGlobal ==
    \/ NextGlobalSeq
    \/ GetMixerStatusLoad
    \/ GetMixerStatusDeref

SpecGlobal == Init /\ [][NextGlobal]_vars

\* A LoopbackMixerFfi: node sources are registered and the sources are
\* addressed by index.
NextLoopback ==
    \/ \E idx \in LoopbackIndices : RegisterNodeSource(idx, MaxSources)
    \/ \E idx \in LoopbackIndices, g \in Gains : LoopbackSetGain(idx, g)
    \/ \E idx \in LoopbackIndices, m \in BOOLEAN : LoopbackSetMute(idx, m)
    \/ \E n \in 1..MaxMixPush, ts \in 1..MaxTs : SubmitInput(n, ts)
    \/ \E idx \in LoopbackIndices, n \in 1..MaxMixPush, ts \in 1..MaxTs :
          PushNodeFrames(idx, n, ts)
    \/ \E f \in 0..MaxFrames : LoopbackProcessBegin(Channels, f)
    \/ ProcessMixNext
    \/ ProcessReturn

SpecLoopback == InitLoopback /\ [][NextLoopback]_vars

\* A loopback mixer whose node sources are registered from two threads
\* while frames are pushed and blocks are rendered.
NextRegister ==
    \/ \E t \in Threads, idx \in LoopbackIndices :
          RegisterCheck(t, idx, MaxSources + 1)
    \/ \E t \in Threads : RegisterInsert(t)
    \/ \E idx \in LoopbackIndices, n \in 1..MaxMixPush, ts \in 1..MaxTs :
          PushNodeFrames(idx, n, ts)
    \/ \E f \in 0..MaxFrames : LoopbackProcessBegin(Channels, f)
    \/ ProcessMixNext
    \/ ProcessReturn

SpecRegister == InitLoopback /\ [][NextRegister]_vars

\* One source whose clock is fed a steady stream of feedback pairs.
NextClock ==
    \/ AddSource(1)
    \/ \E source_delta \in SourceDeltas :
          SteadyFeedback(1, DeviceDelta, source_delta, MaxPairs)

SpecClock == Init /\ [][NextClock]_vars

\* One source rendered in blocks that fit its scratch buffer while its
\* clock is fed a steady stream of feedback pairs.
NextResample ==
    \/ AddSource(1)
    \/ \E n \in 1..MaxMixPush : ProducerPush(1, n, MaxMixFrames)
    \/ \E source_delta \in SourceDeltas :
          SteadyFeedback(1, DeviceDelta, source_delta, MaxResamplePairs)
    \/ \E f \in 1..(MaxBlockFrames + 1) : ProcessBegin(Channels, f)
    \/ ProcessMixNext
    \/ ProcessReturn

SpecResample == Init /\ [][NextResample]_vars

\* One source whose latency is set to values below, at and above the
\* capacity of its delay line, between blocks that fit its scratch buffer.
LatencySettings ==
    Latencies \cup {DelayCapacity - 1, DelayCapacity, DelayCapacity + 1}

NextLatency ==
    \/ AddSource(1)
    \/ \E n \in 1..MaxMixPush : ProducerPush(1, n, MaxMixFrames)
    \/ \E l \in LatencySettings : SetLatency(1, l)
    \/ \E f \in 1..(MaxBlockFrames + 1) : ProcessBegin(Channels, f)
    \/ ProcessMixNext
    \/ ProcessReturn

SpecLatency == Init /\ [][NextLatency]_vars

\* One DelayLine under set_target and process_frame, targets below capacity.
NextDelayLag ==
    \/ \E f \in DelayLagTargets : DelayLineSetTarget(f)
    \/ DelayLineProcessFrame

SpecDelayLag == Init /\ [][NextDelayLag]_vars

\* One DelayLine under set_target, drop_frames and process_frame.
NextDelay ==
    \/ \E f \in DelayTargets : DelayLineSetTarget(f)
    \/ \E f \in DelayDrops : DelayLineDropFrames(f)
    \/ DelayLineProcessFrame

SpecDelay == Init /\ [][NextDelay]_vars

\* ---------------------------------------------------------- properties
Producer == th["producer"]
Consumer == th["consumer"]
Quiescent == \A t \in Threads : th[t].pc = "idle"

\* The first k frames of a sample sequence / the last k frames of it.
FirstFrames(s, k) == [i \in 1..(k * Channels) |-> s[i]]
LastFrames(s, k) == [i \in 1..(k * Channels) |-> s[Len(s) - k * Channels + i]]

\* The physical frame slots of the n frames from logical index `from` on.
Slots(from, n) == {StartFrame(i) : i \in from..(from + n - 1)}

\* The samples stored in the slots of the k frames from logical index `from`.
Stored(d, from, k) ==
    [i \in 1..(k * Channels) |->
        d[StartFrame(from + (i - 1) \div Channels) * Channels
          + ((i - 1) % Channels)]]

PushLogged == sequential /\ call.op = "push" /\ call.done
PopLogged == sequential /\ call.op = "pop" /\ call.done
DiscardLogged == sequential /\ call.op = "discard" /\ call.done
LoggedUsed == RingUsed(call.pre_w, call.pre_r)

\* C1: with one producer pushing and one consumer popping and discarding,
\* in every interleaving of their loads, copies and stores,
\* read_index <= write_index and write_index - read_index <= capacity, so
\* available_read() is the true fill level and lies in 0..capacity.
C1_IndexBounds ==
    /\ read_index <= write_index
    /\ write_index - read_index <= RingCapacity
    /\ AvailableRead = write_index - read_index
    /\ AvailableRead \in 0..RingCapacity

C1_Witness ==
    /\ write_index - read_index = RingCapacity
    /\ write_index > RingCapacity
    /\ Producer.pc = "push_load_r"
    /\ Consumer.pc = "pop_store_r"

\* C2: over any sequence of calls the frames taken out of the ring, in
\* order, are a prefix of the frames push accepted (nothing lost, repeated
\* or reordered, also when a copy straddles the wrap boundary), every pop
\* returns the frames that follow the ones taken out before it, and a pop
\* straight after a push that fit into a drained ring returns exactly the
\* pushed frames.
C2_FifoRoundTrip ==
    /\ Len(consumed) <= Len(accepted)
    /\ consumed = SubSeq(accepted, 1, Len(consumed))
    /\ PopLogged =>
          FirstFrames(call.out, call.ret)
              = LogicalFrames(accepted, call.pre_r, call.ret)
    /\ (PushLogged /\ LoggedUsed = 0 /\ call.ret = FramesCount(call.arg)) =>
          /\ PopNow(call.arg).ret = call.ret
          /\ FirstFrames(PopNow(call.arg).out, call.ret)
                = FirstFrames(call.block, call.ret)

C2_Witness ==
    /\ PushLogged
    /\ LoggedUsed = 0
    /\ call.ret = 2
    /\ StartFrame(call.pre_w) = RingCapacity - 1
    /\ Len(consumed) > 0

\* C3: once no call is in flight, the frames push accepted (sum of its
\* return values) equal the frames pop returned plus the frames discard
\* removed plus available_read().
C3_Conservation ==
    Quiescent => accepted_frames = consumed_frames + AvailableRead

C3_Witness ==
    /\ Quiescent
    /\ accepted_frames > RingCapacity
    /\ consumed_frames > 0
    /\ AvailableRead > 0

\* C4: with the copies and the index stores as separate steps, every frame
\* the consumer has copied out holds the samples the producer published for
\* that logical index, the frames it copies lie below the write_index it
\* observed, and no slot it reads is one a push in flight is still writing.
C4_PublicationOrder ==
    /\ Consumer.pc \in {"pop_copy1", "pop_copy2", "pop_store_r"} =>
          /\ Consumer.r + Consumer.n <= Consumer.w
          /\ Consumer.w <= write_index
    /\ Consumer.pc = "pop_copy2" =>
          FirstFrames(Consumer.buf, FirstChunkFrames(Consumer.r, Consumer.n))
              = LogicalFrames(accepted, Consumer.r,
                              FirstChunkFrames(Consumer.r, Consumer.n))
    /\ Consumer.pc = "pop_store_r" =>
          FirstFrames(Consumer.buf, Consumer.n)
              = LogicalFrames(accepted, Consumer.r, Consumer.n)
    /\ (/\ Consumer.pc \in {"pop_copy1", "pop_copy2"}
        /\ Producer.pc \in {"push_copy1", "push_copy2", "push_store_w"}) =>
          Slots(Consumer.r, Consumer.n) \cap Slots(Producer.w, Producer.n) = {}

C4_Witness ==
    /\ Consumer.pc = "pop_store_r"
    /\ Consumer.n > FirstChunkFrames(Consumer.r, Consumer.n)
    /\ Producer.pc = "push_store_w"
    /\ write_index = Consumer.r + Consumer.n

\* C5: a push of a slice of len samples returns
\* min(len / channels, capacity - available) frames, stores exactly those
\* frames of the slice at the old write position, advances write_index by
\* that number and leaves read_index alone.
C5_PushWritesMin ==
    PushLogged =>
        LET k == Min(FramesCount(call.arg), RingCapacity - LoggedUsed)
        IN  /\ call.ret = k
            /\ write_index = call.pre_w + k
            /\ read_index = call.pre_r
            /\ Stored(data, call.pre_w, k) = FirstFrames(call.block, k)

C5_Witness ==
    /\ PushLogged
    /\ call.ret = 2
    /\ call.ret < FramesCount(call.arg)
    /\ StartFrame(call.pre_w) = RingCapacity - 1

\* C6: a push into a full ring returns 0 and leaves write_index,
\* read_index, the stored samples and last_timestamp_ns as they were.
C6_FullPushNoChange ==
    (PushLogged /\ LoggedUsed = RingCapacity) =>
        /\ call.ret = 0
        /\ write_index = call.pre_w
        /\ read_index = call.pre_r
        /\ data = call.pre_data
        /\ last_timestamp_ns = call.pre_ts

C6_Witness ==
    /\ PushLogged
    /\ LoggedUsed = RingCapacity
    /\ FramesCount(call.arg) > 0
    /\ PushTimestamp(call.ts) # call.pre_ts

\* C7: a pop into a buffer of len samples returns
\* min(len / channels, available) frames, which are the oldest stored ones,
\* writes nothing beyond them, advances read_index by that number and
\* leaves write_index, last_timestamp_ns and the stored samples alone.
C7_PopReadsMin ==
    PopLogged =>
        LET k == Min(FramesCount(call.arg), LoggedUsed)
        IN  /\ call.ret = k
            /\ read_index = call.pre_r + k
            /\ write_index = call.pre_w
            /\ last_timestamp_ns = call.pre_ts
            /\ data = call.pre_data
            /\ Len(call.out) = call.arg
            /\ FirstFrames(call.out, k) = Stored(call.pre_data, call.pre_r, k)
            /\ \A j \in (k * Channels + 1)..call.arg : call.out[j] = Stale

C7_Witness ==
    /\ PopLogged
    /\ call.ret = 2
    /\ LoggedUsed = RingCapacity
    /\ StartFrame(call.pre_r) = RingCapacity - 1

\* C8: discard(n) returns min(n, available), advances read_index by that
\* number and changes nothing else; a pop that follows returns the frames
\* that come after the skipped ones.
C8_DiscardSkipsOldest ==
    DiscardLogged =>
        LET d == Min(call.arg, LoggedUsed)
        IN  /\ call.ret = d
            /\ read_index = call.pre_r + d
            /\ write_index = call.pre_w
            /\ last_timestamp_ns = call.pre_ts
            /\ data = call.pre_data
            /\ \A len \in 0..MaxOutLen :
                  /\ PopNow(len).ret = Min(FramesCount(len), LoggedUsed - d)
                  /\ FirstFrames(PopNow(len).out, PopNow(len).ret)
                        = LogicalFrames(accepted, call.pre_r + d,
                                        PopNow(len).ret)

C8_Witness ==
    /\ DiscardLogged
    /\ call.ret > 0
    /\ call.ret < LoggedUsed
    /\ ~ncall.active

\* C9: while the producer thread feeds the ring through push_node_frames
\* and the render thread pops and discards, read_index is changed only by
\* steps of the render thread and write_index only by steps of the
\* producer, and neither index ever decreases.
C9_IndexOwnership ==
    [][/\ read_index' >= read_index
       /\ write_index' >= write_index
       /\ (read_index' # read_index => th'["consumer"] # th["consumer"])
       /\ (write_index' # write_index => th'["producer"] # th["producer"])]_vars

\* C10: after a push_node_frames of a block of n frames with no consumer
\* running, available_read() <= capacity and draining the ring yields a
\* sequence that ends with the last min(n, capacity) frames of the block.
C10_DropOldestKeepsNewest ==
    (sequential /\ ncall.active /\ ncall.done /\ ncall.ret
       /\ Len(ncall.block) > 0) =>
        LET m == Min(FramesCount(Len(ncall.block)), RingCapacity)
            drain == PopNow(RingCapacity * Channels)
        IN  /\ AvailableRead <= RingCapacity
            /\ drain.ret >= m
            /\ LastFrames(FirstFrames(drain.out, drain.ret), m)
                  = LastFrames(ncall.block, m)

\* C11: available_read(), called from a thread of its own while the producer
\* pushes and the consumer pops and discards, its two index loads being
\* separate steps, never returns more than the number of frames readable at
\* the moment it returns; it may return less.
C11_AvailableReadNeverOver ==
    /\ avail.ret <= avail.readable
    /\ avail.ret \in 0..RingCapacity

C11_Witness ==
    /\ avail.pc = "idle"
    /\ avail.ret > 0
    /\ avail.ret < avail.readable
    /\ Producer.pc = "push_store_ts"

\* A process call with channels = 2 and frames > 0 has returned.
Rendered ==
    render.pc = "idle" /\ render.channels = Channels /\ render.frames > 0

\* Sample j of what the n-th source mixed contributed to the block: the
\* frame its delay line returned, scaled by its gain; nothing when it was
\* muted or produced no frame.
Contribution(n, j) ==
    LET m == render.mixed[n]
        k == (j + 1) \div Channels
    IN  IF m.src.mute \/ k > Len(m.delayed) THEN 0
        ELSE m.delayed[k][((j - 1) % Channels) + 1] * m.src.gain

\* The contributions of the first n sources, summed in registration order
\* starting from zero.
RECURSIVE MixedSum(_, _)
MixedSum(n, j) == IF n = 0 THEN 0 ELSE MixedSum(n - 1, j) + Contribution(n, j)

\* C12: after Mixer.process with channels = 2 and frames > 0 has returned,
\* it returned Ok(frames), every source registered by then was mixed once,
\* and every output sample of the block is the sum, in registration order starting from
\* zero, of the gain-scaled frames the unmuted sources produced; nothing of
\* the buffer's previous content is left in the block.
C12_OutputIsSumOfSources ==
    Rendered =>
        /\ render.ret = <<"Ok", render.frames>>
        /\ Len(render.mixed) = render.idx
        /\ render.idx <= Len(sources)
        /\ \A n \in 1..render.idx :
              render.mixed[n].src.handle = sources[n].handle
        /\ \A j \in 1..(render.frames * Channels) :
              /\ render.output[j] = MixedSum(Len(render.mixed), j)
              /\ render.output[j] # GivenBuffer[j]

C12_Witness ==
    /\ Rendered
    /\ Len(render.mixed) = 2
    /\ \A n \in 1..2 : /\ ~render.mixed[n].src.mute
                       /\ Len(render.mixed[n].delayed) = render.frames
                       /\ render.mixed[n].delayed[render.frames] # Silence
    /\ render.mixed[1].src.gain # render.mixed[2].src.gain
    /\ render.mixed[1].src.gain > 0
    /\ render.mixed[2].src.gain > 0

\* The block a mixer renders that holds only the given sources.
RECURSIVE MixAll(_, _, _)
MixAll(srcs, output, frames) ==
    IF srcs = <<>> THEN output
    ELSE MixAll(Tail(srcs), MixInto(Head(srcs), output, frames).out, frames)

IsUnmuted(m) == ~m.src.mute

\* The sources of the block as they were when they were mixed, the muted
\* ones left out.
UnmutedOnly ==
    LET kept == SelectSeq(render.mixed, IsUnmuted)
    IN  [n \in 1..Len(kept) |-> kept[n].src]

\* C13: a muted source adds exactly 0 to every output sample: the block a
\* process call produces is the block a mixer produces that holds only the
\* unmuted sources, in the same state and fed the same input.
C13_MutedAddsNothing ==
    Rendered =>
        render.output
            = MixAll(UnmutedOnly, FillZero(GivenBuffer, render.frames),
                     render.frames)

C13_Witness ==
    /\ Rendered
    /\ Len(render.mixed) = 2
    /\ \E a, b \in 1..2 :
          /\ ~render.mixed[a].src.mute
          /\ Len(render.mixed[a].delayed) = render.frames
          /\ render.mixed[a].delayed[render.frames] # Silence
          /\ render.mixed[a].src.gain > 0
          /\ render.mixed[b].src.mute
          /\ render.mixed[b].src.gain > 0
          /\ RingAvailable(render.mixed[b].src.ring) >= render.frames

\* A step of the render loop that calls mix_into on a muted source.
MixesMuted ==
    /\ render.pc = "mix"
    /\ render.idx < Len(sources)
    /\ render'.idx = render.idx + 1
    /\ sources[render.idx + 1].mute

MixesUnmuted ==
    /\ render.pc = "mix"
    /\ render.idx < Len(sources)
    /\ render'.idx = render.idx + 1
    /\ ~sources[render.idx + 1].mute

\* C14: mix_into on a muted source changes nothing of that source (ring
\* indices, delay line, resampler phase, prev_frame, current latency
\* setting, advance deficit), so a latency change that is pending stays
\* pending; the first unmuted mix_into picks it up.
C14_MutedMixChangesNothing ==
    [][/\ MixesMuted => sources'[render.idx + 1] = sources[render.idx + 1]
       /\ MixesUnmuted =>
             sources'[render.idx + 1].current_latency_setting
                 = sources[render.idx + 1].latency_frames]_vars

C14_Witness ==
    /\ render.pc = "mix"
    /\ render.idx = 1
    /\ sources[1].mute
    /\ sources[1].latency_frames # sources[1].current_latency_setting
    /\ RingAvailable(sources[1].ring) > 0
    /\ blocks > 1

\* The n-th source of the block was unmuted, had a latency change to
\* L >= 0 pending when it was mixed, and had a block's worth of input queued.
PicksUpLatency(n) ==
    LET m == render.mixed[n]
    IN  /\ ~m.src.mute
        /\ m.src.latency_frames # m.src.current_latency_setting
        /\ m.src.latency_frames >= 0
        /\ Len(m.delayed) = render.frames
        /\ RingAvailable(m.src.ring) >= render.frames

\* C15: in the block that picks up set_latency(h, L) with L >= 0, whatever
\* the latency setting was before, the first L frames the source contributes
\* (all of them when the block is shorter than L) are silence.
C15_SilenceAfterSetLatency ==
    \A n \in 1..Len(render.mixed) :
        PicksUpLatency(n) =>
            \A k \in 1..Min(render.mixed[n].src.latency_frames, render.frames) :
                render.mixed[n].delayed[k] = Silence

\* The same, for a source whose delay line is empty when the change is
\* picked up (the setting before was 0 or negative).
C15_SilenceFromEmptyDelayLine ==
    \A n \in 1..Len(render.mixed) :
        (PicksUpLatency(n) /\ render.mixed[n].src.delay_line.len = 0) =>
            \A k \in 1..Min(render.mixed[n].src.latency_frames, render.frames) :
                render.mixed[n].delayed[k] = Silence

\* A frame of the ring as the mix path carries it (units of 1/RatioOne).
Scaled(frame) == <<frame[1] * RatioOne, frame[2] * RatioOne>>

Unscaled(frame) == <<frame[1] \div RatioOne, frame[2] \div RatioOne>>

\* The frames of a sequence of interleaved samples.
FramesOf(samples) ==
    [k \in 1..FramesCount(Len(samples)) |-> ReadInterleaved(samples, k - 1)]

\* The n-th source of the block was mixed with ratio 1.0, phase 0, gain 1,
\* latency 0 and mute off, and produced the block's frames.
IdentitySetting(n) ==
    LET m == render.mixed[n]
    IN  /\ ~m.src.mute
        /\ m.src.gain = 1
        /\ m.src.resampler = [ratio |-> RatioOne, phase |-> 0]
        /\ m.src.latency_frames = 0
        /\ m.src.current_latency_setting = 0
        /\ m.src.advance_deficit = 0
        /\ m.src.delay_line.len = 0
        /\ m.src.delay_line.target_delay = 0
        /\ Len(m.delayed) = render.frames

\* What the source emitted in the block is what it held and popped: the
\* carried prev_frame followed by the popped frames equals the emitted
\* frames followed by the prev_frame carried out of the block; what the
\* block has beyond that is silence.
EmitsWhatItPopped(n) ==
    LET m == render.mixed[n]
        read == FramesCount(Len(m.popped))
        shown == Min(read, render.frames)
    IN  IF read = 0
        THEN /\ \A k \in 1..render.frames : m.delayed[k] = Silence
             /\ sources[n].prev_frame = m.src.prev_frame
        ELSE /\ <<m.src.prev_frame>> \o FramesOf(m.popped)
                   = [k \in 1..shown |-> Unscaled(m.delayed[k])]
                        \o <<sources[n].prev_frame>>
             /\ \A k \in 1..shown :
                   m.delayed[k] = Scaled(Unscaled(m.delayed[k]))
             /\ \A k \in (shown + 1)..render.frames : m.delayed[k] = Silence

\* C16: with ratio 1.0, phase 0, gain 1, latency 0 and mute off, whatever
\* the ring holds when the block begins, the frames a source emits are the
\* frames it popped from its ring, in order, none skipped and none
\* repeated, shifted only by the carried prev_frame.
C16_RatioOneIdentity ==
    \A n \in 1..Len(render.mixed) :
        IdentitySetting(n) => EmitsWhatItPopped(n)

\* The same for blocks that find no more than `frames` frames queued.
C16_IdentityWithoutBacklog ==
    \A n \in 1..Len(render.mixed) :
        (/\ IdentitySetting(n)
         /\ RingAvailable(render.mixed[n].src.ring) <= render.frames) =>
            EmitsWhatItPopped(n)

\* A step that is a whole process call.
ProcessCalled == blocks' = blocks + 1

\* Some source has frames queued and some source holds a frame from an
\* earlier block.
SourcesBusy ==
    /\ Len(sources) = MaxSources
    /\ \E n \in 1..Len(sources) : RingAvailable(sources[n].ring) > 0
    /\ \E n \in 1..Len(sources) : sources[n].prev_frame # Silence

\* C17: Mixer.process with a channel count n other than 2 returns
\* UnsupportedChannels(n) at once and changes neither the caller's buffer
\* nor any source (ring, delay line, latency state).
C17_UnsupportedChannelsNoChange ==
    [][(ProcessCalled /\ render'.channels # Channels) =>
          /\ render'.ret = <<"UnsupportedChannels", render'.channels>>
          /\ render'.pc = "idle"
          /\ render'.output = GivenBuffer
          /\ sources' = sources]_vars

C17_Witness ==
    /\ render.ret = <<"UnsupportedChannels", 1>>
    /\ render.pc = "idle"
    /\ SourcesBusy

\* C18: process with frames = 0 returns Ok(0) at once, writes no sample of
\* the caller's buffer and leaves every source as it was: nothing is popped
\* or discarded and no pending change is applied.
C18_EmptyBlockNoChange ==
    [][(ProcessCalled /\ render'.channels = Channels /\ render'.frames = 0) =>
          /\ render'.ret = <<"Ok", 0>>
          /\ render'.pc = "idle"
          /\ render'.output = GivenBuffer
          /\ sources' = sources]_vars

C18_Witness ==
    /\ render.ret = <<"Ok", 0>>
    /\ render.channels = Channels
    /\ render.pc = "idle"
    /\ blocks > 1
    /\ Len(sources) = 1
    /\ ~sources[1].mute
    /\ RingAvailable(sources[1].ring) > 0
    /\ sources[1].prev_frame # Silence
    /\ sources[1].latency_frames # sources[1].current_latency_setting

\* A step that is a whole control call.
ControlCalled == ncontrol' = ncontrol + 1

\* The handles add_source has returned so far.
HandedOut == {sources[n].handle : n \in 1..Len(sources)}

\* The source with the fields a control call may store set as in `after`.
OnlyStored(op, before, after) ==
    CASE op = "write_source" -> [before EXCEPT !.ring = after.ring]
      [] op = "set_gain" -> [before EXCEPT !.gain = after.gain]
      [] op = "set_mute" -> [before EXCEPT !.mute = after.mute]
      [] op = "set_latency" ->
            [before EXCEPT !.latency_frames = after.latency_frames]
      [] op = "submit_clock_feedback" ->
            [before EXCEPT !.clock = after.clock,
                           !.resampler.ratio = after.resampler.ratio]

FitsScratch(m) ==
    ExpectedInput(render.frames,
                  Clamp(m.src.resampler.ratio, RatioMin, RatioMax)) * Channels
        <= ScratchSamples

\* The n-th source of the block drove its delay line with `frames` frames
\* and produced `frames` frames; silent ones when its ring yielded nothing.
DroveDelayLine(n) ==
    LET m == render.mixed[n]
        before == m.src.delay_line
        after == sources[n].delay_line
    IN  /\ Len(m.delayed) = render.frames
        /\ after.write_idx
              = (before.write_idx + render.frames) % before.capacity
        /\ m.popped = <<>> =>
              \A k \in 0..(render.frames - 1) :
                  after.buffer[(before.write_idx + k) % before.capacity]
                      = Silence

DrainedAtMix(n) == RingAvailable(render.mixed[n].src.ring) = 0

\* Every frame the n-th source contributed to the block is silence, and
\* while the call runs its gain and mute are what they were.
ContributedSilence(n) ==
    LET m == render.mixed[n]
    IN  /\ \A k \in 1..Len(m.delayed) : m.delayed[k] = Silence
        /\ render.pc = "mix" =>
              /\ sources[n].gain = m.src.gain
              /\ sources[n].mute = m.src.mute

\* C21: a source whose ring is drained at the start of mix_into contributes
\* silence to every output frame of the block, whatever its latency setting
\* and whatever it was fed in earlier blocks, and its gain and mute are
\* unchanged.
C21_DrainedRingIsSilent ==
    \A n \in 1..Len(render.mixed) : DrainedAtMix(n) => ContributedSilence(n)

\* The same for a source whose delay line holds nothing when the block
\* begins.
C21_DrainedSilentFromEmptyDelayLine ==
    \A n \in 1..Len(render.mixed) :
        (DrainedAtMix(n) /\ render.mixed[n].src.delay_line.len = 0) =>
            ContributedSilence(n)

\* Largest max_block_frames the scratch sizing is checked for.
MaxScratchBlocks == 6

\* A step of the render loop that calls mix_into on an unmuted source whose
\* input need for the block exceeds its scratch buffer.
MixesOversized ==
    /\ MixesUnmuted
    /\ ~FitsScratch([src |-> sources[render.idx + 1]])

\* C22: when the input a block needs (ceil(frames x ratio) + 2 frames)
\* exceeds the scratch buffer built at construction, mix_into leaves the
\* output as it was, pops nothing from the ring (the ring loses only what a
\* pending advance discards before the check), emits nothing and leaves the
\* delay line's capacity and buffer length, the resampler and prev_frame as
\* they were; and for every max_block_frames >= 1, every frames <=
\* max_block_frames and every ratio in [0.95, 1.05] the scratch is large
\* enough.
C22_OversizedBlockLeftUntouched ==
    /\ [][MixesOversized =>
             LET i == render.idx + 1
                 m == render'.mixed[i]
             IN  /\ render'.output = render.output
                 /\ m.popped = <<>>
                 /\ m.delayed = <<>>
                 /\ sources'[i].ring.data = sources[i].ring.data
                 /\ sources'[i].ring.write_index = sources[i].ring.write_index
                 /\ RingAvailable(sources'[i].ring)
                       = RingAvailable(sources[i].ring) - m.discarded
                 /\ sources'[i].delay_line.capacity
                       = sources[i].delay_line.capacity
                 /\ DOMAIN sources'[i].delay_line.buffer
                       = DOMAIN sources[i].delay_line.buffer
                 /\ sources'[i].delay_line.write_idx
                       = sources[i].delay_line.write_idx
                 /\ sources'[i].resampler = sources[i].resampler
                 /\ sources'[i].prev_frame = sources[i].prev_frame]_vars
    /\ [](\A max_block_frames \in 1..MaxScratchBlocks :
             \A frames \in 1..max_block_frames :
                 \A ratio \in RatioMin..RatioMax :
                     ExpectedInput(frames, ratio) * Channels
                         <= ScratchLen(max_block_frames))

C22_Witness ==
    /\ render.pc = "mix"
    /\ render.idx = 1
    /\ ~render.mixed[1].src.mute
    /\ ~FitsScratch(render.mixed[1])
    /\ RingAvailable(render.mixed[1].src.ring) > 1
    /\ render.mixed[1].discarded > 0
    /\ render.mixed[1].src.gain > 0
    /\ render.mixed[1].src.prev_frame # Silence

\* C23: whatever the interleaving of get_mixer_status with
\* loopback_mixer_create and loopback_mixer_destroy on another thread, the
\* mixer an accessor dereferences has not been destroyed.
C23_StatusNeverDerefsDestroyed ==
    status_call.dereferenced # Freed => status_call.was_live

\* The creation numbers of the live mixers.
LiveMixers == {boxes[a] : a \in LiveBoxes}

\* C24: after any sequential series of loopback_mixer_create and
\* loopback_mixer_destroy calls the global handle is null or points at the
\* live mixer created last; create publishes the mixer it made, and
\* destroy(h) stores null when the global handle equals h and leaves it as it
\* is otherwise.
C24_GlobalIsNullOrNewest ==
    /\ [](loopback_global # Null =>
             /\ loopback_global \in LiveBoxes
             /\ \A n \in LiveMixers : n <= boxes[loopback_global])
    /\ [][/\ created' = created + 1 =>
                /\ loopback_global' \notin LiveBoxes
                /\ boxes'[loopback_global'] = created'
          /\ destroying.pc = "compare" =>
                loopback_global' =
                    IF loopback_global = destroying.handle THEN Null
                    ELSE loopback_global]_vars

C24_Witness ==
    /\ destroying.pc = "drop"
    /\ destroying.stored # destroying.handle
    /\ loopback_global # Null
    /\ created = MaxCreated
    /\ Cardinality(LiveBoxes) = MaxBoxes

\* The entries of a status snapshot that show the microphone.
MicrophoneEntries ==
    {n \in 1..Len(sources) : CollectStatus[n].name = "Microphone"}

\* A control call by index that stored into a source.
StoresByIndex ==
    /\ ControlCalled
    /\ ctl'.op \in {"loopback_set_gain", "loopback_set_mute"}
    /\ sources' # sources

\* C25: the microphone is the source with id 0: no source that add_source
\* or register_node_source registered has id 0, the microphone's entry in a
\* status snapshot carries id 0, and a control call stores into the source
\* whose status id is the index the call was given.
C25_MicrophoneIsSourceZero ==
    /\ [](/\ \A idx \in DOMAIN node_sources : node_sources[idx] # 0
          /\ \A n \in MicrophoneEntries : CollectStatus[n].id = MicSourceIndex)
    /\ [][StoresByIndex =>
             \A n \in 1..Len(sources) :
                 sources'[n] # sources[n] =>
                     CollectStatus[n].id = ctl'.handle]_vars

\* What holds instead: the microphone is the first source, its id is 1 in
\* every snapshot, index 0 stores into it, and every other id is above 1.
C25_MicrophoneIsSourceOne ==
    /\ [](/\ MicrophoneEntries = {1}
          /\ CollectStatus[1].id = 1
          /\ \A n \in 2..Len(sources) : CollectStatus[n].id > 1)
    /\ [][(StoresByIndex /\ ctl'.handle = MicSourceIndex) =>
             \A n \in 2..Len(sources) : sources'[n] = sources[n]]_vars

\* C26: the ids add_source and add_external_source hand out, in any
\* interleaved order of the two, are positive, strictly increasing in
\* registration order and so pairwise distinct; the source list only grows,
\* and a source keeps its id and its position in it.
C26_SourceIdsIncreaseAndStay ==
    /\ [](/\ \A n \in 1..Len(sources) : sources[n].handle > 0
          /\ \A m, n \in 1..Len(sources) :
                m < n => sources[m].handle < sources[n].handle
          /\ \A n \in 1..Len(sources) : sources[n].handle < next_source_id)
    /\ [][/\ Len(sources') >= Len(sources)
          /\ \A n \in 1..Len(sources) :
                sources'[n].handle = sources[n].handle]_vars

C26_Witness ==
    /\ Len(sources) = MaxSources
    /\ ctl.op = "add_external_source"
    /\ ctl.handle = MaxSources
    /\ ncontrol > 0
    /\ sources[1] # NewSource(sources[1].handle)

\* The clock of the source a steady stream is fed to, and what the stream's
\* ratio source_delta / device_delta is clamped to.
FedClock == sources[1].clock

SteadyTarget ==
    Clamp(RoundDiv((FedClock.last_source_ts \div ncontrol) * ClockOne,
                   FedClock.last_device_ts \div ncontrol),
          FeedbackMin * ClockPerRatio, FeedbackMax * ClockPerRatio)

\* |a - b|
Distance(a, b) == IF a >= b THEN a - b ELSE b - a

\* x lies between a and b, ends included
Between(x, a, b) == (a <= x /\ x <= b) \/ (b <= x /\ x <= a)

\* The rounding step of smoothed_ratio: up to this distance from the target
\* ALPHA times the distance may round to nothing.
ClockTolerance == AlphaInverse \div 2

\* A pair of a steady stream is submitted, not the first one.
FeedsPair == ncontrol > 0 /\ ncontrol' = ncontrol + 1

\* C27: under a steady stream of feedback pairs with source_delta /
\* device_delta = r, every pair moves smoothed_ratio towards clamp(r, 0.98,
\* 1.02) and never past it; it ends within rounding of it, and drift_ppm
\* within a ppm of (clamp(r) - 1) x 1e6; after 100 pairs with r = 1.01,
\* smoothed_ratio is in [1.005, 1.01] and drift_ppm in [5000, 10000].
C27_SmoothedRatioConverges ==
    /\ [][FeedsPair =>
             LET before == FedClock.smoothed_ratio
                 after == FedClock'.smoothed_ratio
             IN  /\ Between(after, before, SteadyTarget)
                 /\ Distance(before, SteadyTarget) > ClockTolerance =>
                       Distance(after, SteadyTarget)
                           < Distance(before, SteadyTarget)]_vars
    /\ [](ncontrol = MaxPairs =>
             /\ Distance(FedClock.smoothed_ratio, SteadyTarget)
                   <= ClockTolerance
             /\ Distance(DriftPpm(FedClock),
                         RoundDiv(SteadyTarget - ClockOne, ClockOne \div PpmOne))
                   <= 1)
    /\ []((/\ ncontrol = 100
           /\ FedClock.last_source_ts * 100 = FedClock.last_device_ts * 101) =>
             /\ FedClock.smoothed_ratio >= 1005 * ClockPerRatio
             /\ FedClock.smoothed_ratio <= 1010 * ClockPerRatio
             /\ DriftPpm(FedClock) >= 5000
             /\ DriftPpm(FedClock) <= 10000)

C27_Witness ==
    /\ ncontrol = MaxPairs
    /\ FedClock.last_source_ts > FedClock.last_device_ts
    /\ SteadyTarget = FeedbackMax * ClockPerRatio
    /\ FedClock.smoothed_ratio > 1015 * ClockPerRatio

\* The n-th source of the block was unmuted, had a gain above zero and
\* latency 0, and frames that submit_input or push_node_frames had put into
\* its ring were waiting when it was mixed.
HadAudioWaiting(n) ==
    LET m == render.mixed[n]
    IN  /\ ~m.src.mute
        /\ m.src.gain > 0
        /\ m.src.latency_frames = 0
        /\ m.src.current_latency_setting = 0
        /\ m.src.delay_line.len = 0
        /\ RingAvailable(m.src.ring) > 0

\* The oldest frame waiting in the ring of the n-th source when it was
\* mixed, as the mix path carries it.
OldestWaiting(n) ==
    Scaled(ReadInterleaved(RingPop(render.mixed[n].src.ring, Channels).out, 0))

\* Some sample of the block is not silence.
OutputNotSilent ==
    \E j \in 1..(render.frames * Channels) : render.output[j] # 0

DelaySettled ==
    /\ delay_log.op = "process_frame"
    /\ delay_log.since > delay_line.capacity

\* The frame that was input target_delay calls before the last call.
InputTargetCallsEarlier ==
    DelayFrame(delay_log.calls - delay_line.target_delay)

\* C29: once enough frames have been processed after the last set_target(d),
\* raised or lowered, process_frame returns the frame that was input exactly
\* d calls earlier.
C29_LagIsTarget ==
    DelaySettled => delay_log.frame = InputTargetCallsEarlier

\* C29, targets that are not below what the line holds: the lag is the target.
C29_LagIsTargetUnlessLowered ==
    (DelaySettled /\ ~delay_log.lowered) =>
        delay_log.frame = InputTargetCallsEarlier

\* C29, the lag in every case: the frames the line held before the call.
C29_LagIsFramesHeld ==
    DelaySettled =>
        delay_log.frame = DelayFrame(delay_log.calls - delay_line.len)

\* C30: after any sequence of set_target, drop_frames and process_frame
\* calls, 0 <= len <= capacity, 0 <= target_delay < capacity, set_target(f)
\* stored min(f, capacity - 1), and write_idx = (read_idx + len) mod capacity.
C30_DelayLineInvariants ==
    /\ 0 <= delay_line.len
    /\ delay_line.len <= delay_line.capacity
    /\ 0 <= delay_line.target_delay
    /\ delay_line.target_delay < delay_line.capacity
    /\ delay_log.op = "set_target" =>
          delay_line.target_delay = Min(delay_log.arg, delay_line.capacity - 1)
    /\ delay_line.write_idx
          = (delay_line.read_idx + delay_line.len) % delay_line.capacity

C30_Witness ==
    /\ delay_log.op = "set_target"
    /\ delay_log.arg > delay_line.capacity
    /\ delay_log.dropped > 0
    /\ delay_line.len > 0
    /\ delay_line.write_idx < delay_line.read_idx

\* The n-th mix_into of the block was not muted and found the desired
\* latency different from the current setting.
PickedUpLatency(n) ==
    /\ ~render.mixed[n].src.mute
    /\ render.mixed[n].src.latency_frames
          # render.mixed[n].src.current_latency_setting

\* Frames the n-th mix_into of the block dropped from the delay line: the
\* frames it held before the call less those left once the latency was
\* picked up.
DelayDropped(n) ==
    IF render.mixed[n].src.mute THEN 0
    ELSE render.mixed[n].src.delay_line.len
            - UpdateLatencyState(render.mixed[n].src).delay_line.len

\* What the n-th mix_into of the block still owed the ring when it came to
\* discard.
OwedAtDiscard(n) ==
    IF PickedUpLatency(n)
    THEN IF render.mixed[n].src.latency_frames < 0
         THEN 0 - render.mixed[n].src.latency_frames - DelayDropped(n)
         ELSE 0
    ELSE render.mixed[n].src.advance_deficit

\* C31: a negative latency -d is paid exactly once. The block that picks it
\* up has dropped + discarded + advance_deficit = d; every later block with
\* the same setting drops nothing from the delay line, moves what it discards
\* out of advance_deficit (which never grows), leaves it at 0 once the ring
\* held enough frames, and discards nothing once it is 0.
C31_NegativeLatencyPaidOnce ==
    \A n \in 1..Len(render.mixed) :
        LET m == render.mixed[n]
            paid == DelayDropped(n) + m.discarded
        IN  /\ m.src.mute =>
                  /\ paid = 0
                  /\ sources[n].advance_deficit = m.src.advance_deficit
            /\ (PickedUpLatency(n) /\ m.src.latency_frames < 0) =>
                  paid + sources[n].advance_deficit = 0 - m.src.latency_frames
            /\ (~m.src.mute /\ ~PickedUpLatency(n)) =>
                  /\ DelayDropped(n) = 0
                  /\ m.discarded + sources[n].advance_deficit
                        = m.src.advance_deficit
                  /\ sources[n].advance_deficit <= m.src.advance_deficit
                  /\ m.src.advance_deficit = 0 => m.discarded = 0
            /\ (~m.src.mute /\ RingAvailable(m.src.ring) >= OwedAtDiscard(n)) =>
                  sources[n].advance_deficit = 0
            /\ sources[n].advance_deficit >= 0
            /\ sources[n].advance_deficit
                  <= Max(0, 0 - sources[n].current_latency_setting)

\* A latency of -2 picked up with one frame in the delay line and one in the
\* ring: one dropped, one discarded, nothing owed.
C31_Witness ==
    /\ Len(render.mixed) = 1
    /\ PickedUpLatency(1)
    /\ render.mixed[1].src.latency_frames = 0 - 2
    /\ DelayDropped(1) = 1
    /\ render.mixed[1].discarded = 1
    /\ sources[1].advance_deficit = 0

\* A block that pays the rest of a debt left by an earlier block.
C31_WitnessLater ==
    /\ Len(render.mixed) = 1
    /\ ~render.mixed[1].src.mute
    /\ ~PickedUpLatency(1)
    /\ render.mixed[1].src.advance_deficit > 0
    /\ render.mixed[1].discarded > 0

\* C32: an unmuted mix_into that finds a desired latency L >= 0 different
\* from the current setting sets the delay-line target to
\* min(L, capacity - 1), resets advance_deficit to 0 and drops no frame; after
\* every unmuted mix_into current_latency_setting is the desired latency read
\* at the start of the call.
C32_NonNegativeLatencyPickedUp ==
    \A n \in 1..Len(render.mixed) :
        LET m == render.mixed[n]
        IN  /\ ~m.src.mute =>
                  sources[n].current_latency_setting = m.src.latency_frames
            /\ (PickedUpLatency(n) /\ m.src.latency_frames >= 0) =>
                  /\ sources[n].delay_line.target_delay
                        = Min(m.src.latency_frames,
                              sources[n].delay_line.capacity - 1)
                  /\ sources[n].advance_deficit = 0
                  /\ m.discarded = 0
                  /\ DelayDropped(n) = 0
                  /\ sources[n].delay_line.len >= m.src.delay_line.len
                  /\ sources[n].ring.read_index
                        = m.src.ring.read_index + FramesCount(Len(m.popped))

\* A latency above the capacity picked up while a negative-latency debt was
\* still unpaid.
C32_Witness ==
    /\ Len(render.mixed) = 1
    /\ PickedUpLatency(1)
    /\ render.mixed[1].src.latency_frames > DelayCapacity
    /\ render.mixed[1].src.advance_deficit > 0
    /\ sources[1].delay_line.target_delay = DelayCapacity - 1

\* This step is a submit_clock_feedback call that found its source.
FeedbackStep ==
    /\ ncontrol' = ncontrol + 1
    /\ ctl'.op = "submit_clock_feedback"
    /\ ctl'.ret = <<"Ok", 0>>

\* Source i had a previous pair and the pair of this step is later than it
\* on both clocks.
FeedbackAdvances(i) ==
    /\ sources[i].clock.last_device_ts # NoTs
    /\ sources[i].clock.last_source_ts # NoTs
    /\ ctl'.args[1] > sources[i].clock.last_device_ts
    /\ ctl'.args[2] > sources[i].clock.last_source_ts

\* C33: submit_feedback changes smoothed_ratio and the resampler ratio only
\* when a previous pair exists and both deltas are strictly positive, and then
\* the resampler ratio is the smoothed ratio; the first pair and a pair that
\* does not advance on both clocks leave both unchanged, as does a call for
\* another source.
C33_OnlyAdvancingPairsMoveTheRatio ==
    [][FeedbackStep =>
          \A i \in 1..Len(sources) :
              IF sources[i].handle = ctl'.handle /\ FeedbackAdvances(i)
              THEN sources'[i].resampler.ratio
                      = RoundDiv(sources'[i].clock.smoothed_ratio,
                                 ClockPerRatio)
              ELSE /\ sources'[i].clock.smoothed_ratio
                         = sources[i].clock.smoothed_ratio
                   /\ sources'[i].resampler.ratio
                         = sources[i].resampler.ratio]_vars

\* A pair was accepted and moved both the smoothed and the resampler ratio.
C33_Witness ==
    /\ ctl.op = "submit_clock_feedback"
    /\ \E i \in 1..Len(sources) :
          /\ sources[i].handle = ctl.handle
          /\ sources[i].clock.smoothed_ratio # ClockOne
          /\ sources[i].resampler.ratio # RatioOne

\* C34: after every submit_feedback call that reaches a source, accepted or
\* not, the stored last_device_ts and last_source_ts are the pair just
\* submitted; the clocks of the other sources are as they were.
C34_TimestampsAlwaysStored ==
    [][FeedbackStep =>
          \A i \in 1..Len(sources) :
              IF sources[i].handle = ctl'.handle
              THEN /\ sources'[i].clock.last_device_ts = ctl'.args[1]
                   /\ sources'[i].clock.last_source_ts = ctl'.args[2]
              ELSE sources'[i].clock = sources[i].clock]_vars

\* The second control call submitted the pair (1, 2), whose device timestamp
\* is the lowest there is and so advances on no earlier pair: the pair is
\* stored and the ratio is where it was.
C34_Witness ==
    /\ ctl.op = "submit_clock_feedback"
    /\ ctl.ret = <<"Ok", 0>>
    /\ ncontrol = 2
    /\ ctl.args = <<1, 2>>
    /\ \E i \in 1..Len(sources) :
          /\ sources[i].handle = ctl.handle
          /\ sources[i].clock.last_device_ts = 1
          /\ sources[i].clock.last_source_ts = 2
          /\ sources[i].clock.smoothed_ratio = ClockOne

\* This step is the timestamp store of the producer's push.
StoresTimestamp ==
    /\ th["producer"].pc = "push_store_ts"
    /\ th'["producer"].pc # "push_store_ts"

\* C35: last_timestamp_ns is the timestamp of the most recent push that wrote
\* at least one frame, stored once that push's write_index is published; no
\* other step of push (a push that returns 0 included), pop or discard
\* changes it; and write_index always covers the push whose timestamp is
\* stored, so an observer that reads the timestamp and then write_index sees
\* an index that covers that push.
C35_TimestampFollowsPublishedPush ==
    /\ [](write_index >= accepted_frames)
    /\ [][IF StoresTimestamp
          THEN /\ last_timestamp_ns' = PushTimestamp(th["producer"].ts)
               /\ th["producer"].n >= 1
               /\ write_index = th["producer"].w + th["producer"].n
               /\ write_index' = write_index
               /\ accepted_frames' = write_index
          ELSE last_timestamp_ns' = last_timestamp_ns]_vars

\* The timestamp of an earlier push is still stored while a later push has
\* published its frames and is about to store its own, different timestamp.
C35_Witness ==
    /\ accepted_frames > 0
    /\ write_index > accepted_frames
    /\ th["producer"].pc = "push_store_ts"
    /\ last_timestamp_ns # 0
    /\ PushTimestamp(th["producer"].ts) # last_timestamp_ns
    /\ read_index > 0

\* C36: the ratio mix_into uses lies in [0.95, 1.05] and the published ratio
\* in [0.98, 1.02]; the phase persisted by a block lies in [0, 1); in every
\* round of the resampling loop the input cursor advances by
\* floor(phase + ratio), which is 0, 1 or 2, and never beyond the last frame
\* read.
C36_RatioPhaseAndCursorBounds ==
    /\ \A i \in 1..Len(sources) :
          /\ sources[i].resampler.ratio >= FeedbackMin
          /\ sources[i].resampler.ratio <= FeedbackMax
          /\ sources[i].resampler.phase >= 0
          /\ sources[i].resampler.phase < RatioOne
    /\ \A n \in 1..Len(render.mixed) :
          LET steps == render.mixed[n].steps
          IN  /\ \A k \in 1..Len(steps) :
                    LET advance == (steps[k].phase + steps[k].ratio) \div RatioOne
                    IN  /\ steps[k].ratio >= RatioMin
                        /\ steps[k].ratio <= RatioMax
                        /\ steps[k].ratio
                              = Clamp(render.mixed[n].src.resampler.ratio,
                                      RatioMin, RatioMax)
                        /\ advance \in 0..2
                        /\ steps[k].next_cursor
                              = Min(steps[k].cursor + advance,
                                    steps[k].last_available)
                        /\ steps[k].next_cursor <= steps[k].last_available
                        /\ steps[k].next_phase
                              = steps[k].phase + steps[k].ratio
                                   - advance * RatioOne
                        /\ steps[k].next_phase >= 0
                        /\ steps[k].next_phase < RatioOne
                        /\ k < Len(steps) =>
                              /\ steps[k + 1].cursor = steps[k].next_cursor
                              /\ steps[k + 1].phase = steps[k].next_phase
              /\ steps # <<>> =>
                    /\ steps[1].phase = render.mixed[n].src.resampler.phase
                    /\ steps[1].cursor = 0
                    /\ sources[n].resampler.phase
                          = steps[Len(steps)].next_phase

\* A block resampled at a ratio below 1 after clock feedback: one round
\* leaves the cursor where it is, the next moves it to the last frame read.
C36_Witness ==
    /\ Len(render.mixed) = 1
    /\ render.mixed[1].src.resampler.ratio < RatioOne
    /\ \E k \in 1..Len(render.mixed[1].steps) :
          LET st == render.mixed[1].steps[k]
          IN  /\ st.phase + st.ratio < RatioOne
              /\ st.next_cursor = st.cursor
              /\ st.cursor < st.last_available
    /\ \E k \in 1..Len(render.mixed[1].steps) :
          LET st == render.mixed[1].steps[k]
          IN  /\ st.phase + st.ratio >= RatioOne
              /\ st.next_cursor = st.cursor + 1
              /\ st.next_cursor = st.last_available
    /\ sources[1].resampler.phase > 0

\* A block resampled at a ratio above 1 whose cursor advanced inside the
\* frames read.
C36_WitnessFast ==
    /\ Len(render.mixed) = 1
    /\ render.mixed[1].src.resampler.ratio > RatioOne
    /\ \E k \in 1..Len(render.mixed[1].steps) :
          render.mixed[1].steps[k].next_cursor
              = render.mixed[1].steps[k].cursor + 1

\* This step is a set_gain / set_mute call made with a source index.
ControlByIndex ==
    /\ ControlCalled
    /\ ctl'.op \in {"loopback_set_gain", "loopback_set_mute"}

\* C37: a control call made with the id a status entry reports succeeds,
\* stores into the source that entry describes and into no other.
C37_StatusIdAddressesItsSource ==
    [][ControlByIndex =>
          \A n \in 1..Len(sources) :
              CollectStatus[n].id = ctl'.handle =>
                  /\ ctl'.ret = <<"true", 0>>
                  /\ \A other \in 1..Len(sources) :
                        other # n => sources'[other] = sources[other]]_vars

\* C37, what the code does with the microphone's id: index 1 is either no
\* registered node source, and the call fails, or it is a node source, and
\* the call stores into that one; the microphone is never changed by it.
C37_MicrophoneIdMissesMicrophone ==
    [][(ControlByIndex /\ ctl'.handle = CollectStatus[1].id) =>
          /\ sources'[1] = sources[1]
          /\ ctl'.ret = <<"true", 0>> <=> IsRegistered(ctl'.handle)]_vars

\* A call of register_node_source returns in this step.
RegisterReturns ==
    /\ ncontrol' = ncontrol + 1
    /\ ctl'.op = "register_node_source"

\* The mixer sources that are the entry of no source_index and are not the
\* microphone.
OrphanSources ==
    {i \in 1..Len(sources) :
        /\ sources[i].handle # mic_handle
        /\ \A idx \in DOMAIN node_sources :
              node_sources[idx] # sources[i].handle}

\* C38: for each source_index at most one mixer source and ring is ever
\* created, however the calls of register_node_source interleave: every
\* mixer source but the microphone is the entry of its index, every entry
\* is a source the render loop reads, and a registration of an index that
\* has an entry returns true and leaves the sources, their rings and the
\* entries as they were.
C38_OneSourcePerIndex ==
    /\ [](/\ OrphanSources = {}
          /\ \A idx \in DOMAIN node_sources :
                FindSource(node_sources[idx]) # 0)
    /\ [][(RegisterReturns /\ IsRegistered(ctl'.handle)) =>
             /\ ctl'.ret = <<"true", 0>>
             /\ sources' = sources
             /\ node_sources' = node_sources]_vars

\* C38, what the code does: the entry of an index is always a source the
\* render loop reads, and a call that finds the entry at its read of
\* node_sources returns true and creates nothing.
C38_EntryIsRendered ==
    /\ [](\A idx \in DOMAIN node_sources :
             FindSource(node_sources[idx]) # 0)
    /\ [][(RegisterReturns /\ RegistersInFlight' = RegistersInFlight
              /\ IsRegistered(ctl'.handle)) =>
             /\ ctl'.ret = <<"true", 0>>
             /\ sources' = sources
             /\ node_sources' = node_sources]_vars

\* The slots of the frames numbered from .. from + n - 1.
SlotsOf(from, n) == {StartFrame(from + k) : k \in 0..(n - 1)}

\* The slots the producer's push writes: those of its two copies, from the
\* copy it is about to make until write_index is stored.
PushWrites ==
    IF th["producer"].pc \in {"push_copy1", "push_copy2", "push_store_w"}
    THEN SlotsOf(th["producer"].w, th["producer"].n)
    ELSE {}

\* The slots of the frames that are queued: published and not yet freed.
QueuedSlots == SlotsOf(read_index, write_index - read_index)

\* The slots the consumer's pop is copying out.
PopReads ==
    IF th["consumer"].pc \in {"pop_copy1", "pop_copy2", "pop_store_r"}
    THEN SlotsOf(th["consumer"].r, th["consumer"].n)
    ELSE {}

\* C39: the producer never overwrites unread data: in every interleaving
\* of the steps of one producer and one consumer, the slots a push writes
\* are none of the slots of queued frames or of frames an in-flight pop
\* copies out, and the free space push computed from its read of
\* read_index is at most the free space there is.
C39_PushNeverOverwritesUnread ==
    /\ PushWrites \cap (QueuedSlots \cup PopReads) = {}
    /\ write_index - read_index <= RingCapacity
    /\ th["producer"].pc \in {"push_copy1", "push_copy2", "push_store_w"} =>
          /\ th["producer"].w = write_index
          /\ th["producer"].r <= read_index
          /\ th["producer"].n <= PushFree(th["producer"].w, th["producer"].r)
          /\ PushFree(th["producer"].w, th["producer"].r)
                <= RingCapacity - (write_index - read_index)

\* A push is copying in while a pop copies out, and read_index has moved
\* since the push read it.
C39_Witness ==
    /\ th["producer"].pc \in {"push_copy1", "push_copy2"}
    /\ th["consumer"].pc \in {"pop_copy1", "pop_copy2"}
    /\ th["producer"].r < read_index
    /\ PushWrites # {}
    /\ PopReads # {}

\* A push that wraps is making its second copy while a pop copies out.
C39_WitnessWrap ==
    /\ th["producer"].pc = "push_copy2"
    /\ th["consumer"].pc \in {"pop_copy1", "pop_copy2"}
    /\ PopReads # {}

\* process_frame is called in this step.
ProcessFrameStep ==
    /\ delay_log'.op = "process_frame"
    /\ delay_log'.calls = delay_log.calls + 1

\* C40: the delay line never loses a frame by overflow: whatever targets
\* are set, whatever is dropped and however many frames are processed,
\* len < capacity holds when process_frame writes, so read_idx moves only
\* when process_frame returns the oldest frame held (the frame just
\* written when none was held).
C40_NoOverflow ==
    /\ [](delay_line.len < delay_line.capacity)
    /\ [][ProcessFrameStep =>
             /\ delay_line.len < delay_line.capacity
             /\ delay_line'.len \in {delay_line.len, delay_line.len + 1}
             /\ IF delay_line'.len = delay_line.len + 1
                THEN /\ delay_line'.read_idx = delay_line.read_idx
                     /\ delay_log'.frame = Silence
                ELSE /\ delay_line'.read_idx =
                           (delay_line.read_idx + 1) % delay_line.capacity
                     /\ delay_log'.frame =
                           IF delay_line.len = 0
                           THEN DelayFrame(delay_log'.calls)
                           ELSE delay_line.buffer[delay_line.read_idx]]_vars

\* process_frame has written into a line that held capacity - 1 frames,
\* after the write index wrapped, and returned the oldest of them.
C40_Witness ==
    /\ delay_log.op = "process_frame"
    /\ delay_log.calls > DelayCapacity
    /\ delay_log.since >= 2
    /\ delay_line.len = DelayCapacity - 1
    /\ delay_line.target_delay = DelayCapacity - 1
    /\ delay_log.frame # Silence

\* C40 for the delay lines of the Mixer's sources.
C40_SourceLinesBelowCapacity ==
    \A i \in 1..Len(sources) :
        sources[i].delay_line.len < sources[i].delay_line.capacity

====
